---- MODULE Spec2Model ----
(***************************************************************************)
(* Batch extraction controller and popup correlation of the job-posting    *)
(* extractor (Extractor.extractPostingsData).  The controller, the popup   *)
(* callback and the extraction tasks run on one JavaScript thread: code    *)
(* between two awaits is atomic, so callbacks and task completions are     *)
(* enabled only while the controller is suspended at an await.             *)
(***************************************************************************)
EXTENDS Integers, Sequences, FiniteSets, TLC

\* ---------------------------------------------------------------- bounds
\* last index of the popup poll loop (100 in the source, index.ts:370)
PollLimit == 1
\* extraction tasks that throw or return an error, per batch
MaxFaults == 1
\* clicks whose popup misses its poll window, per batch
MaxLate == 1

\* ------------------------------------------------------ program constants
\* a page with more than this many missing/seen ids aborts the batch
DupThreshold == 5

NoId == 0          \* a row whose id cell is missing or empty
NoPage == 0        \* openedPage === null

Awaiting == 0      \* the click's poll loop has not ended
TimedOut == -1     \* the click's poll loop ended without a popup

ErrNone == "none"
ErrPopup == "Never got the expected popup"
ErrCaught == "Error extracting posting data"
ErrIncomplete == "Extracted incomplete data from posting page"

\* messages of the errors that end the whole call
FailNoPagination == "Tried to extract data from a page without a posting table"
FailNoTable == "Got a page that did not contain a table of postings"
FailTooMany ==
  "Got a page containing too many entries that have already been extracted"
FailNavTimeout == "TimeoutError"
FailRejected == "extraction rejected"

\* ------------------------------------------------------------ scenarios
\* A listing is a sequence of listing pages, a listing page the sequence of
\* ids of the rows that plist.results holds for it (NoId: no id text).
SmallListings ==
  { << <<1, 2>>, <<2, 3>> >>,
    << <<1, 1, 2>> >>,
    << <<NoId, 1>>, <<NoId>> >>,
    << <<1, 2>>, << >> >> }

\* listing pages around the repeat threshold
BigListings ==
  { << <<NoId, NoId, NoId, NoId, NoId, NoId>> >>,
    << <<1, 2>>, <<1, 2, 1, NoId, NoId, 3>> >>,
    << <<1, 2>>, <<1, 2, 1, NoId, NoId, NoId>> >> }

\* options of the call; 0 stands for an option that is not set
SmallOptions ==
  [ maxPages : {0, 1}, maxConcurrency : {0, 1},
    delay : BOOLEAN, startOnCurrent : BOOLEAN ]

BigOptions ==
  [ maxPages : {0}, maxConcurrency : {1},
    delay : {FALSE}, startOnCurrent : {TRUE} ]

\* ------------------------------------------------------- pagination text
\* The text of the pagination region as a sequence of tokens.
PagTextOf(p) ==
  IF p = 1 THEN <<"Displaying", " ", "1">>
  ELSE IF p = 2 THEN <<"Displaying", " ", "2">>
  ELSE <<"Displaying", " ", "3">>

LoadingText == <<"Loading", " ", "...">>

IsSpace(tok) == tok \in {" ", "\n", "\t"}

\* textContent.replaceAll(/[\s]/g, "")
StripSpace(t) == SelectSeq(t, LAMBDA tok : ~IsSpace(tok))

\* ---------------------------------------------------------------- strings
\* A string is a sequence of tokens.  A token stands for a run of characters
\* that no substring test of the modelled code splits, so String.includes
\* is containment of one token sequence in the other.

\* the tokens that toLowerCase changes, with their lower-case form
CasePairs ==
  { <<"Displaying", "displaying">>, <<"DISPLAYING", "displaying">>,
    <<"Loading", "loading">>,
    <<"Job", "job">>, <<"JOB", "job">>, <<"Title", "title">>,
    <<"Type", "type">>, <<"Region", "region">>, <<"Posting", "posting">>,
    <<"Status", "status">>, <<"Information", "information">>,
    <<"Application", "application">>, <<"Company", "company">>,
    <<"Service", "service">>, <<"Team", "team">>, <<"Level", "level">>,
    <<"Work", "work">>, <<"Term", "term">>, <<"Duration", "duration">>,
    <<"Method", "method">>, <<"Organization", "organization">>,
    <<"AM", "am">>, <<"Approved", "approved">>, <<"Expired", "expired">>,
    <<"EXPIRED", "expired">>, <<"Shortlisted", "shortlisted">>,
    <<"Submitted", "submitted">>, <<"Apply", "apply">>,
    <<"Include", "include">>, <<"Filled", "filled">>,
    <<"Partially", "partially">>, <<"Rankings", "rankings">>,
    <<"Finalized", "finalized">>, <<"Interview", "interview">>,
    <<"Complete", "complete">>, <<"Selections", "selections">>,
    <<"Available", "available">>, <<"Open", "open">>,
    <<"Applications", "applications">>, <<"Cancel", "cancel">>,
    <<"Applied", "applied">>, <<"Not", "not">>,
    <<"Interested", "interested">>, <<"Selected", "selected">>,
    <<"Employed", "employed">>, <<"None", "none">>, <<"Four", "four">>,
    <<"Required", "required">>,
    <<"Junior", "junior">>, <<"JUNIOR", "junior">>,
    <<"Intermediate", "intermediate">>, <<"INTERMEDIATE", "intermediate">>,
    <<"Senior", "senior">>, <<"SENIOR", "senior">>,
    <<"Cover", "cover">>, <<"Letter", "letter">>, <<"Grade", "grade">>,
    <<"Report", "report">>, <<"History", "history">>, <<"SIS", "sis">>,
    <<"Transcript", "transcript">>, <<"Re'sume'", "re'sume'">>,
    <<"Other", "other">>, <<"Fall", "fall">>, <<"Winter", "winter">>,
    <<"Spring", "spring">>, <<"Summer", "summer">>,
    <<"Part", "part">>, <<"Un", "un">>, <<"Externally", "externally">>,
    <<"Phase", "phase">>, <<"Offer", "offer">>, <<"Set", "set">>,
    <<"Summary", "summary">>, <<"Month", "month">> }

ToLower(tok) ==
  IF \E p \in CasePairs : p[1] = tok
    THEN (CHOOSE p \in CasePairs : p[1] = tok)[2]
    ELSE tok

\* currentText.toLowerCase().includes("displaying")
IncludesDisplaying(t) == \E k \in 1..Len(t) : ToLower(t[k]) = "displaying"

\* variant: any change of the text counts, the marker is not required
AdvanceConfirmedAnyChange(raw, last) == StripSpace(raw) /= last

\* the predicate handed to page.waitForFunction
AdvanceConfirmed(raw, last) ==
  LET cur == StripSpace(raw) IN IncludesDisplaying(cur) /\ cur /= last

\* String.prototype.toLowerCase
toLowerCase(s) == [k \in 1..Len(s) |-> ToLower(s[k])]

RECURSIVE trimStart(_)
trimStart(s) ==
  IF Len(s) > 0 /\ IsSpace(Head(s)) THEN trimStart(Tail(s)) ELSE s

RECURSIVE trimEnd(_)
trimEnd(s) ==
  IF Len(s) > 0 /\ IsSpace(s[Len(s)])
    THEN trimEnd(SubSeq(s, 1, Len(s) - 1))
    ELSE s

\* String.prototype.trim
trim(s) == trimEnd(trimStart(s))

\* String.prototype.includes
includes(s, sub) ==
  \E k \in 0..(Len(s) - Len(sub)) : SubSeq(s, k + 1, k + Len(sub)) = sub

\* normalize("NFD").replace(/[\u0300-\u036f]/g, ""): the accents go, the
\* letters stay ("'" after a letter stands for its combining accent)
StripMarks(s) == [k \in 1..Len(s) |->
                    IF s[k] = "re'sume'" THEN "resume"
                    ELSE IF s[k] = "Re'sume'" THEN "Resume" ELSE s[k]]

\* --------------------------------------------------------- JavaScript values
\* A value is a record of its type tag t and its payload v.
Undefined == [t |-> "undefined", v |-> << >>]
Null == [t |-> "null", v |-> << >>]
Str(s) == [t |-> "string", v |-> s]
Num(d) == [t |-> "number", v |-> d]
Arr(items) == [t |-> "array", v |-> items]
MapOf(entries) == [t |-> "Map", v |-> entries]
Obj(fields) == [t |-> "object", v |-> fields]

\* outcome of a call: the value returned or the error thrown
Returned(x) == [t |-> "returned", v |-> x]
Thrown(msg) == [t |-> "thrown", v |-> msg]

\* x ?? y
OrElse(x, y) == IF x.t \in {"undefined", "null"} THEN y ELSE x

\* the condition of if (x)
Truthy(x) ==
  CASE x.t \in {"undefined", "null"} -> FALSE
    [] x.t = "string" -> Len(x.v) > 0
    [] x.t = "number" -> x.v \notin {<<"0">>, <<"NaN">>}
    [] x.t = "boolean" -> x.v = <<"true">>
    [] OTHER -> TRUE

\* String(x) for the primitive values
String(x) ==
  CASE x.t = "string" -> x
    [] x.t = "number" -> Str(x.v)
    [] x.t = "null" -> Str(<<"null">>)
    [] x.t = "undefined" -> Str(<<"undefined">>)
    [] OTHER -> Str(<<"[object]">>)

\* Number(x) for the primitive values
Number(x) ==
  CASE x.t = "number" -> x
    [] x.t = "null" -> Num(<<"0">>)
    [] x.t = "string" ->
         IF Len(trim(x.v)) = 0 THEN Num(<<"0">>)
         ELSE IF \A k \in 1..Len(x.v) :
                   x.v[k] \in {"0", "1", "2", "4", "7", "8"}
           THEN Num(x.v)
         ELSE Num(<<"NaN">>)
    [] OTHER -> Num(<<"NaN">>)

\* ------------------------------------------------------------------- Map
\* A Map is the sequence of its entries <<key, value>> in insertion order.
\* Map.prototype.get
MapGet(map, key) ==
  IF \E i \in 1..Len(map.v) : map.v[i][1] = key
    THEN map.v[CHOOSE i \in 1..Len(map.v) : map.v[i][1] = key][2]
    ELSE Undefined

\* Map.prototype.set: a known key keeps its place and takes the new value
MapSet(entries, key, value) ==
  IF \E i \in 1..Len(entries) : entries[i][1] = key
    THEN [i \in 1..Len(entries) |->
            IF entries[i][1] = key THEN <<key, value>> ELSE entries[i]]
    ELSE Append(entries, <<key, value>>)

RECURSIVE MapFrom(_, _)
\* new Map(pairs), entry by entry
MapFrom(entries, pairs) ==
  IF Len(pairs) = 0 THEN entries
  ELSE MapFrom(MapSet(entries, pairs[1][1], pairs[1][2]), Tail(pairs))

\* [...map.entries()]
EntriesOf(map) == Arr([i \in 1..Len(map.v) |-> Arr(map.v[i])])

\* --------------------------------------------------------- field resolver
\* stringKeys: each key with its lower-case form
StringKeys(map) ==
  [k \in 1..Len(map.v) |-> << toLowerCase(map.v[k][1].v), map.v[k][1] >>]

RECURSIVE FirstIncluding(_, _, _)
\* the inner loop: position of the first key that includes i, 0 if none
FirstIncluding(stringKeys, i, k) ==
  IF k > Len(stringKeys) THEN 0
  ELSE IF includes(stringKeys[k][1], i) THEN k
  ELSE FirstIncluding(stringKeys, i, k + 1)

RECURSIVE MatchFrom(_, _, _)
\* the outer loop over the options, from option n on
MatchFrom(map, options, n) ==
  IF n > Len(options) THEN Undefined
  ELSE LET i == trim(toLowerCase(options[n]))
           k == FirstIncluding(StringKeys(map), i, 1)
       IN IF k /= 0 THEN MapGet(map, StringKeys(map)[k][2])
          ELSE MatchFrom(map, options, n + 1)

\* variant: the keys are the outer loop, so the key order decides
priorityMatchKeysFirst(map, options) ==
  LET hits == { k \in 1..Len(map.v) :
                  \E n \in 1..Len(options) :
                    includes(toLowerCase(map.v[k][1].v),
                             trim(toLowerCase(options[n]))) }
  IN IF hits = {} THEN Undefined
     ELSE map.v[CHOOSE k \in hits : \A h \in hits : k <= h][2]

\* variant: nothing matches and the first entry is returned
priorityMatchFallsBack(map, options) ==
  LET r == MatchFrom(map, options, 1) IN
    IF r.t = "undefined" /\ Len(map.v) > 0 THEN map.v[1][2] ELSE r

\* priorityMatch(map, ...options) for a map with string keys
priorityMatch(map, options) == MatchFrom(map, options, 1)

\* priorityMatch(table, ...k)?.trim() ?? "UNKNOWN"
tableString(table, k) ==
  LET r == priorityMatch(table, k) IN
    IF r.t = "undefined" THEN Str(<<"UNKNOWN">>) ELSE Str(trim(r.v))

\* ------------------------------------------------------- enum normalizers
\* waterlooworks/posting/status.ts
parseJobPostingStatusNoDefault(status) ==
  LET s == trim(toLowerCase(status)) IN
    IF includes(s, <<"approved">>) THEN "APPROVED"
    ELSE IF includes(s, <<"expired">>) THEN "EXPIRED"
    ELSE "undefined"

parseJobPostingStatus(status) ==
  LET s == trim(toLowerCase(status)) IN
    IF includes(s, <<"approved">>) THEN "APPROVED"
    ELSE IF includes(s, <<"expired">>) THEN "EXPIRED"
    ELSE "UNKNOWN"

parseInternalStatus(status) ==
  LET s == trim(toLowerCase(status)) IN
    IF includes(s, <<"filled">>) THEN "FILLED"
    ELSE IF includes(s, <<"partially", " ", "filled">>)
      THEN "PARTIALLY-FILLED"
    ELSE IF includes(s, <<"rankings", " ", "finalized">>)
      THEN "EMP-RANKINGS-FINALIZED"
    ELSE IF includes(s, <<"interview", " ", "complete">>)
      THEN "INTERVIEW-COMPLETE"
    ELSE IF includes(s, <<"interview", " ", "selections", " ", "complete">>)
      THEN "INTERVIEW-SELECTIONS-COMPLETE"
    ELSE IF includes(s, <<"expired">>) /\ includes(s, <<"available">>)
      THEN "EXPIRED-APPLICATIONS-AVAILABLE"
    ELSE IF includes(s, <<"open">>) /\ includes(s, <<"applications">>)
      THEN "OPEN-FOR-APPLICATIONS"
    ELSE IF includes(s, <<"cancel">>) THEN "CANCEL"
    ELSE "UNKNOWN"

parseApplicationStatus(status) ==
  LET s == trim(toLowerCase(status)) IN
    IF includes(s, <<"applied">>) THEN "APPLIED"
    ELSE IF includes(s, <<"shortlisted">>) THEN "SHORTLISTED"
    ELSE IF includes(s, <<"not", " ", "interested">>) THEN "NOT-INTERESTED"
    ELSE IF includes(s, <<"expired">>) THEN "EXPIRED"
    ELSE IF includes(s, <<"available">>) THEN "AVAILABLE"
    ELSE "UNKNOWN"

parseInterviewStatus(status) ==
  LET s == trim(toLowerCase(status)) IN
    IF includes(s, <<"applied">>) THEN "APPLIED"
    ELSE IF includes(s, <<"not", " ", "selected">>) THEN "NOT-SELECTED"
    ELSE IF includes(s, <<"selected">>) /\ includes(s, <<"interview">>)
      THEN "SELECTED-FOR-INTERVIEW"
    ELSE IF includes(s, <<"employed">>) THEN "EMPLOYED"
    ELSE IF includes(s, <<"none">>) THEN "NONE"
    ELSE "UNKNOWN"

\* myexperience/posting/job.ts
parseJobDuration(duration) ==
  LET s == trim(toLowerCase(duration))
      twoWork == includes(s, <<"2", " ", "work">>)
      four == includes(s, <<"4">>) \/ includes(s, <<"four">>)
      eight == includes(s, <<"8">>) \/ includes(s, <<"eight">>)
      twelve == includes(s, <<"1", "2">>) \/ includes(s, <<"twelve">>)
  IN IF four /\ eight THEN "4 or 8 month"
     ELSE IF four THEN "4 month"
     ELSE IF eight /\ twelve THEN "8 or 12 month"
     ELSE IF twelve THEN "12 month"
     ELSE IF eight /\ includes(s, <<"prefer">>) THEN "8 month preferred"
     ELSE IF eight THEN "8 month required"
     ELSE IF twoWork /\ includes(s, <<"prefer", "red">>)
       THEN "2 work term commitment preferred"
     ELSE IF twoWork /\ includes(s, <<"required">>)
       THEN "2 work term commitment required"
     ELSE "UNKNOWN"

parseJobLevels(levels) ==
  SelectSeq(<<"JUNIOR", "INTERMEDIATE", "SENIOR">>,
            LAMBDA x : includes(toLowerCase(levels), toLowerCase(<<x>>)))

\* variant: the qualifier words are not looked at
waterlooworks_parseJobDurationNoQualifier(duration) ==
  LET s == trim(toLowerCase(duration))
      four == includes(s, <<"4">>) \/ includes(s, <<"four">>)
      eight == includes(s, <<"8">>) \/ includes(s, <<"eight">>)
  IN IF four /\ eight THEN "4 or 8 month"
     ELSE IF four THEN "4 month"
     ELSE IF eight THEN "8 month required"
     ELSE "UNKNOWN"

\* waterlooworks/posting/job.ts
waterlooworks_parseJobDuration(duration) ==
  LET s == trim(toLowerCase(duration))
      four == includes(s, <<"4">>) \/ includes(s, <<"four">>)
      eight == includes(s, <<"8">>) \/ includes(s, <<"eight">>)
  IN IF four /\ eight THEN "4 or 8 month"
     ELSE IF four THEN "4 month"
     ELSE IF eight /\ includes(s, <<"prefer">>) THEN "8 month preferred"
     ELSE IF eight /\ includes(s, <<"required">>) THEN "8 month required"
     ELSE "UNKNOWN"

\* variant: the four token alone decides
sfu_parseJobDurationFourWins(duration) ==
  LET s == trim(toLowerCase(duration))
      four == includes(s, <<"4">>) \/ includes(s, <<"four">>)
      eight == includes(s, <<"8">>) \/ includes(s, <<"eight">>)
      twelve == includes(s, <<"1", "2">>) \/ includes(s, <<"twelve">>)
  IN IF four THEN "4 month"
     ELSE IF eight THEN (IF twelve THEN "8 or 12 month" ELSE "8 month")
     ELSE IF twelve THEN "12 month"
     ELSE "UNKNOWN"

\* sfu-myexperience/posting/job.ts
sfu_parseJobDuration(duration) ==
  LET s == trim(toLowerCase(duration))
      four == includes(s, <<"4">>) \/ includes(s, <<"four">>)
      eight == includes(s, <<"8">>) \/ includes(s, <<"eight">>)
      twelve == includes(s, <<"1", "2">>) \/ includes(s, <<"twelve">>)
  IN IF four THEN (IF eight THEN "4 or 8 month" ELSE "4 month")
     ELSE IF eight THEN (IF twelve THEN "8 or 12 month" ELSE "8 month")
     ELSE IF twelve THEN "12 month"
     ELSE "UNKNOWN"

\* pdportal/posting/job.ts: switch (true), the first case that holds
pdportal_parseJobDuration(duration) ==
  LET s == trim(toLowerCase(duration))
      four == includes(s, <<"4">>) \/ includes(s, <<"four">>)
      eight == includes(s, <<"8">>) \/ includes(s, <<"eight">>)
      twelve == includes(s, <<"1", "2">>) \/ includes(s, <<"twelve">>)
  IN CASE four /\ eight -> "4 or 8 month"
       [] ~(four /\ eight) /\ four -> "4 month"
       [] ~four /\ eight /\ twelve -> "8 or 12 month"
       [] ~four /\ ~(eight /\ twelve) /\ eight -> "8 month"
       [] ~four /\ ~eight /\ twelve -> "12 month"
       [] OTHER -> "UNKNOWN"

\* unnamed/part_005: the posting/job.ts of a further source
other_parseJobDuration(duration) ==
  LET s == trim(toLowerCase(duration))
      four == includes(s, <<"4">>) \/ includes(s, <<"four">>)
      eight == includes(s, <<"8">>) \/ includes(s, <<"eight">>)
      twelve == includes(s, <<"1", "2">>) \/ includes(s, <<"twelve">>)
  IN IF four /\ eight THEN "4 or 8 month"
     ELSE IF four THEN "4 month"
     ELSE IF eight /\ twelve THEN "8 or 12 month"
     ELSE IF eight THEN "8 month"
     ELSE IF twelve THEN "12 month"
     ELSE "UNKNOWN"

\* sfu-myexperience/posting/status.ts
sfu_parseInternalStatus(status) ==
  LET s == trim(toLowerCase(status)) IN
    IF includes(s, <<"part">>) /\ includes(s, <<"filled">>)
      THEN "PARTIALLY-FILLED"
    ELSE IF includes(s, <<"filled">>) /\ includes(s, <<"externally">>)
      THEN "FILLED-EXTERNALLY"
    ELSE IF includes(s, <<"un", "filled">>) THEN "UNFILLED"
    ELSE IF includes(s, <<"filled">>) THEN "FILLED"
    ELSE IF includes(s, <<"rankings", " ", "finalized">>)
      THEN "EMP-RANKINGS-FINALIZED"
    ELSE IF includes(s, <<"interview", " ", "complete">>)
      THEN "INTERVIEW-COMPLETE"
    ELSE IF includes(s, <<"interview", " ", "selections", " ", "complete">>)
      THEN "INTERVIEW-SELECTIONS-COMPLETE"
    ELSE IF includes(s, <<"interview">>) /\ includes(s, <<"phase">>)
      THEN "INTERVIEWING-PHASE"
    ELSE IF includes(s, <<"expired">>) /\ includes(s, <<"available">>)
      THEN "EXPIRED-APPLICATIONS-AVAILABLE"
    ELSE IF includes(s, <<"open">>) /\ includes(s, <<"applications">>)
      THEN "OPEN-FOR-APPLICATIONS"
    ELSE IF includes(s, <<"offer">>) /\ includes(s, <<"phase">>)
      THEN "OFFER-PHASE"
    ELSE IF includes(s, <<"cancel">>) THEN "CANCEL"
    ELSE IF includes(s, <<"not", " ", "set">>) THEN "NOT-SET"
    ELSE "UNKNOWN"

\* sfu-myexperience/posting/documents.ts
parseApplicationDocument(document) ==
  LET s == StripMarks(trim(toLowerCase(document))) IN
    IF includes(s, <<"cover">>) /\ includes(s, <<"letter">>)
      THEN "Cover letter"
    ELSE IF includes(s, <<"grade">>) /\ includes(s, <<"report">>)
      THEN "Grade report"
    ELSE IF includes(s, <<"work">>) /\ includes(s, <<"history">>)
      THEN "Work history"
    ELSE IF includes(s, <<"SIS">>) THEN "Student Information Summary (SIS)"
    ELSE IF includes(s, <<"Transcript">>) THEN "Transcript"
    ELSE IF includes(s, <<"resume">>) THEN "Resume"
    ELSE IF includes(s, <<"other">>) THEN "Other"
    ELSE "UNKNOWN"

\* unnamed/part_004: the posting/documents.ts of a further source
other_parseApplicationDocument(document) ==
  LET s == StripMarks(trim(toLowerCase(document))) IN
    IF includes(s, <<"cover">>) /\ includes(s, <<"letter">>)
      THEN "Cover letter"
    ELSE IF includes(s, <<"transcript">>) THEN "Transcript"
    ELSE IF includes(s, <<"summary">>) THEN "Student Summary Sheet"
    ELSE IF includes(s, <<"work">>) /\ includes(s, <<"history">>)
      THEN "Work history"
    ELSE IF includes(s, <<"resume">>) THEN "Resume"
    ELSE IF includes(s, <<"other">>) THEN "Other"
    ELSE "UNKNOWN"

\* workTerm.ts
parseWorkTermTerm(term) ==
  LET s == trim(toLowerCase(term)) IN
    IF includes(s, <<"fall">>) THEN "FALL"
    ELSE IF includes(s, <<"winter">>) THEN "WINTER"
    ELSE IF includes(s, <<"spring">>) THEN "SPRING"
    ELSE "UNKNOWN"

Normalizers ==
  { "parseJobPostingStatus", "parseInternalStatus", "parseApplicationStatus",
    "parseInterviewStatus", "parseJobDuration", "parseJobLevels",
    "parseApplicationDocument", "parseWorkTermTerm" }

\* the normalizers that other sources define under the same names
SourceVariants ==
  { "waterlooworks/parseJobDuration", "sfu-myexperience/parseJobDuration",
    "pdportal/parseJobDuration", "other/parseJobDuration",
    "sfu-myexperience/parseInternalStatus",
    "other/parseApplicationDocument" }

\* the value a normalizer returns, as a JavaScript value
Normalize(fn, text) ==
  CASE fn = "parseJobPostingStatus" -> Str(<<parseJobPostingStatus(text)>>)
    [] fn = "parseInternalStatus" -> Str(<<parseInternalStatus(text)>>)
    [] fn = "parseApplicationStatus" -> Str(<<parseApplicationStatus(text)>>)
    [] fn = "parseInterviewStatus" -> Str(<<parseInterviewStatus(text)>>)
    [] fn = "parseJobDuration" -> Str(<<parseJobDuration(text)>>)
    [] fn = "parseJobLevels" ->
         LET l == parseJobLevels(text) IN
           Arr([k \in 1..Len(l) |-> Str(<<l[k]>>)])
    [] fn = "parseApplicationDocument" ->
         Str(<<parseApplicationDocument(text)>>)
    [] fn = "parseWorkTermTerm" -> Str(<<parseWorkTermTerm(text)>>)
    [] fn = "waterlooworks/parseJobDuration" ->
         Str(<<waterlooworks_parseJobDuration(text)>>)
    [] fn = "sfu-myexperience/parseJobDuration" ->
         Str(<<sfu_parseJobDuration(text)>>)
    [] fn = "pdportal/parseJobDuration" ->
         Str(<<pdportal_parseJobDuration(text)>>)
    [] fn = "other/parseJobDuration" -> Str(<<other_parseJobDuration(text)>>)
    [] fn = "sfu-myexperience/parseInternalStatus" ->
         Str(<<sfu_parseInternalStatus(text)>>)
    [] fn = "other/parseApplicationDocument" ->
         Str(<<other_parseApplicationDocument(text)>>)

\* ------------------------------------------------------- posting records
\* A Posting is modelled with its id, title, subtitle, error, raw tables,
\* tags, buttons, the parsed views named below and statsRatings; the other
\* parsed views are further table lookups of the same kind.

Sources == {"sfu-myexperience", "myexperience", "waterlooworks"}

RatingsQuestions == Str(<<"RatingsQuestions">>)

Bool(b) == [t |-> "boolean", v |-> IF b THEN <<"true">> ELSE <<"false">>]

PostingError(id, msg) == [id |-> id, error |-> Str(<<msg>>)]

\* x?.f
Field(x, f) == IF x.t = "object" THEN x.v[f] ELSE Undefined

\* parseMap(entries, fieldName, skipKeyStringify, skipValueStringify)
parseMap(entries, fieldName, skipKeyStringify, skipValueStringify) ==
  IF entries.t = "Map" THEN Returned(entries)
  ELSE IF /\ entries.t = "array"
          /\ \A k \in 1..Len(entries.v) :
               entries.v[k].t = "array" /\ Len(entries.v[k].v) = 2
    THEN Returned(MapOf(MapFrom(<< >>,
           [k \in 1..Len(entries.v) |->
              << IF skipKeyStringify THEN entries.v[k].v[1]
                 ELSE String(entries.v[k].v[1]),
                 IF skipValueStringify THEN entries.v[k].v[2]
                 ELSE String(entries.v[k].v[2]) >>])))
  ELSE Thrown(<<"Error: Got incorrect data type parsing ", fieldName>>)

\* variant: shortlisted is tested before the posting status
applicationStatusShortlistFirst(lowerTags, posting, lowerInteractions) ==
  IF \E k \in 1..Len(lowerTags) :
       includes(lowerTags[k], <<"application", " ", "submitted">>)
    THEN "APPLIED"
  ELSE IF \E k \in 1..Len(lowerTags) : includes(lowerTags[k], <<"shortlisted">>)
    THEN "SHORTLISTED"
  ELSE IF posting = "EXPIRED" THEN "EXPIRED"
  ELSE IF \E k \in 1..Len(lowerInteractions) :
            includes(lowerInteractions[k], <<"include">>)
    THEN "NOT-INTERESTED"
  ELSE IF \E k \in 1..Len(lowerInteractions) :
            includes(lowerInteractions[k], <<"apply">>)
    THEN "AVAILABLE"
  ELSE "UNKNOWN"

\* the conditional chain that computes application.parsed.status
applicationStatus(lowerTags, posting, lowerInteractions) ==
  IF \E k \in 1..Len(lowerTags) :
       includes(lowerTags[k], <<"application", " ", "submitted">>)
    THEN "APPLIED"
  ELSE IF posting = "EXPIRED" THEN "EXPIRED"
  ELSE IF \E k \in 1..Len(lowerTags) : includes(lowerTags[k], <<"shortlisted">>)
    THEN "SHORTLISTED"
  ELSE IF \E k \in 1..Len(lowerInteractions) :
            includes(lowerInteractions[k], <<"include">>)
    THEN "NOT-INTERESTED"
  ELSE IF \E k \in 1..Len(lowerInteractions) :
            includes(lowerInteractions[k], <<"apply">>)
    THEN "AVAILABLE"
  ELSE "UNKNOWN"

\* the object literal that parsePostingData and the waterlooworks
\* extractPostingDetails return; tags and availableInteractions are
\* sequences of strings, the tables are Maps
PostingOf(source, fields) ==
  LET id == fields.id
      title == fields.title
      subtitle == fields.subtitle
      tags == fields.tags
      availableInteractions == fields.availableInteractions
      statusData == fields.statusData
      jobData == fields.jobData
      appData == fields.appData
      companyData == fields.companyData
      serviceTeamData == fields.serviceTeamData
      preScreening == fields.preScreening
      statsRatings == fields.statsRatings
      lowerTags == [k \in 1..Len(tags) |-> toLowerCase(tags[k].v)]
      lowerInteractions ==
        [k \in 1..Len(availableInteractions) |->
           toLowerCase(availableInteractions[k].v)]
      posting == parseJobPostingStatus(
                   tableString(statusData,
                     << <<"job", " ", "posting", " ", "status">>,
                        <<"posting">> >>).v)
      status == applicationStatus(lowerTags, posting, lowerInteractions)
      method == tableString(appData,
                  << <<"application", " ", "method">>, <<"method">> >>)
      common ==
        [ id |-> id, title |-> title, subtitle |-> subtitle,
          error |-> Undefined,
          status |-> [ data |-> statusData, parsed |-> [posting |-> posting] ],
          job |->
            [ data |-> jobData,
              parsed |->
                [ title |-> tableString(jobData,
                              << <<"job", " ", "title">>, <<"title">> >>),
                  level |-> parseJobLevels(
                              tableString(jobData, << <<"level">> >>).v),
                  duration |-> parseJobDuration(
                    tableString(jobData,
                      << <<"work", " ", "term", " ", "duration">>,
                         <<"duration">> >>).v) ] ],
          company |->
            [ data |-> companyData,
              parsed |->
                [ division |-> tableString(companyData,
                                 << <<"division">>, <<"div">> >>),
                  organization |-> tableString(companyData,
                                     << <<"organization">>, <<"org">> >>) ] ] ]
  IN IF source = "sfu-myexperience"
       THEN common @@
            [ application |->
                [ data |-> appData,
                  availableInteractions |-> availableInteractions,
                  tags |-> tags,
                  parsed |-> [ method |-> method, status |-> status ] ] ]
       ELSE common @@
            [ application |->
                [ data |-> appData,
                  availableInteractions |-> availableInteractions,
                  tags |-> tags,
                  parsed |-> [ method |-> method, status |-> status,
                               preScreening |-> preScreening ] ],
              statsRatings |-> statsRatings,
              serviceTeam |->
                [ data |-> serviceTeamData,
                  parsed |->
                    [ accountManager |->
                        tableString(serviceTeamData, << <<"am">> >>) ] ] ]

RECURSIVE everyPair(_, _)
\* stats.every((x) => x.length === 2), from entry k on: "true", "false",
\* or "throws" when the entry read has no properties
everyPair(stats, k) ==
  IF k > Len(stats) THEN "true"
  ELSE IF stats[k].t \in {"null", "undefined"} THEN "throws"
  ELSE IF stats[k].t = "array" /\ Len(stats[k].v) = 2
    THEN everyPair(stats, k + 1)
  ELSE "false"

\* Array.isArray(data) ? [undefined, ...data.map(Number).slice(1)] : undefined
oneIndexedNumArray(data) ==
  IF data.t = "array"
    THEN Arr(<<Undefined>> \o
             [k \in 1..(Len(data.v) - 1) |-> Number(data.v[k + 1])])
    ELSE Undefined

\* the statsRatings block of parsePostingData: the value built ("value"),
\* the PostingError returned early ("return"), or the error thrown
\* (percentByTermNumber and amountByProgram are treated as
\* percentByFaculty is, the division parts of satisfaction and
\* questionRating as their organization parts)
parseStatsRatings(id, sr) ==
  LET hired == Field(sr, "hired")
      org == Field(hired, "organization")
      div == Field(hired, "division")
      ovr == Field(sr, "overallRating")
      sat == Field(sr, "satisfaction")
      qr == Field(sr, "questionRating")
      pbf == Field(sr, "percentByFaculty")
      satisfaction ==
        IF ~Truthy(sat) THEN Undefined
        ELSE Obj([ allCoop |->
                     Obj([ rating |-> Number(Field(Field(sat, "allCoop"),
                                                   "rating")),
                           n |-> Number(Field(Field(sat, "allCoop"), "n")) ]),
                   organization |->
                     Obj([ rating |-> Number(Field(Field(sat, "organization"),
                                                   "rating")),
                           n |-> Number(Field(Field(sat, "organization"),
                                              "n")),
                           distribution |-> oneIndexedNumArray(
                             Field(Field(sat, "organization"),
                                   "distribution")) ]) ])
      division == parseMap(Field(pbf, "division"), "hires pct faculty",
                           FALSE, TRUE)
      hiredError == "Got incorrect data type parsing hired stats"
  IN IF org.t /= "array" \/ div.t /= "array"
       THEN [t |-> "return", v |-> PostingError(id, hiredError)]
     ELSE IF everyPair(org.v, 1) = "throws" THEN Thrown(<<"TypeError">>)
     ELSE IF everyPair(org.v, 1) = "false"
       THEN [t |-> "return", v |-> PostingError(id, hiredError)]
     ELSE IF everyPair(div.v, 1) = "throws" THEN Thrown(<<"TypeError">>)
     ELSE IF everyPair(div.v, 1) = "false"
       THEN [t |-> "return", v |-> PostingError(id, hiredError)]
     ELSE IF division.t = "thrown"
       THEN [t |-> "return", v |-> [id |-> id, error |-> Str(division.v)]]
     ELSE [ t |-> "value",
            v |-> Obj([ parsed |-> Obj(
              [ overallRating |->
                  IF ovr.t \in {"null", "undefined"} THEN Undefined
                  ELSE Number(ovr),
                hired |-> Obj([organization |-> org, division |-> div]),
                percentByFaculty |-> Obj([division |-> division.v]),
                satisfaction |-> satisfaction,
                questionRating |->
                  IF ~Truthy(qr) THEN Undefined
                  ELSE Obj([ questions |-> RatingsQuestions,
                             allCoop |->
                               oneIndexedNumArray(Field(qr, "allCoop")),
                             organization |->
                               oneIndexedNumArray(
                                 Field(qr, "organization")) ]) ]) ]) ]

\* parsePostingData of myexperience and, without preScreening, service
\* team and statsRatings, of sfu-myexperience
parsePostingData(source, data) ==
  IF data.t = "array"
    THEN Thrown(<<"Got an array posting data. Perhaps you forgot to iterate?">>)
  ELSE IF data.t = "object" /\ data.v.error.t = "string"
    THEN Returned([ id |-> IF data.v.id.t = "string" THEN data.v.id
                           ELSE Undefined,
                    error |-> data.v.error ])
  ELSE IF data.t /= "object" THEN Thrown(<<"TypeError">>)
  ELSE
    LET d == data.v
        id == d.id
        jobData == parseMap(d.jobData, "jobData", FALSE, FALSE)
        appData == parseMap(d.applicationData, "applicationData",
                            FALSE, FALSE)
        statusData == parseMap(d.statusData, "statusData", FALSE, FALSE)
        companyData == parseMap(d.companyData, "companyData", FALSE, FALSE)
        serviceTeamData ==
          IF source = "sfu-myexperience" THEN Returned(MapOf(<< >>))
          ELSE parseMap(d.serviceTeamData, "serviceTeamData", FALSE, FALSE)
        maps == << jobData, appData, statusData, companyData,
                   serviceTeamData >>
        stats ==
          IF source = "sfu-myexperience" \/ ~Truthy(d.statsRatings)
            THEN [t |-> "value", v |-> Undefined]
            ELSE parseStatsRatings(id, d.statsRatings)
    IN IF d.tags.t /= "array"
         THEN Returned(PostingError(id, "Got incorrect data type for tags"))
       ELSE IF d.availableInteractions.t /= "array"
         THEN Returned(PostingError(id,
                "Got incorrect data type for availableInteractions"))
       ELSE IF \E k \in 1..Len(maps) : maps[k].t = "thrown"
         THEN LET k == CHOOSE k \in 1..Len(maps) :
                         /\ maps[k].t = "thrown"
                         /\ \A j \in 1..(k - 1) : maps[j].t /= "thrown"
              IN Returned([id |-> id, error |-> Str(maps[k].v)])
       ELSE IF stats.t = "thrown" THEN stats
       ELSE IF stats.t = "return" THEN Returned(stats.v)
       ELSE Returned(PostingOf(source,
              [ id |-> Number(id), title |-> String(d.title),
                subtitle |-> String(d.subtitle),
                tags |-> [k \in 1..Len(d.tags.v) |-> String(d.tags.v[k])],
                availableInteractions |->
                  [k \in 1..Len(d.availableInteractions.v) |->
                     String(d.availableInteractions.v[k])],
                statusData |-> statusData.v, jobData |-> jobData.v,
                appData |-> appData.v, companyData |-> companyData.v,
                serviceTeamData |-> serviceTeamData.v,
                preScreening |-> IF source = "sfu-myexperience" THEN FALSE
                                 ELSE Truthy(d.preScreening),
                statsRatings |-> stats.v ]))

\* toPostingData of myexperience and sfu-myexperience
toPostingData(source, posting) ==
  IF posting.error.t = "string"
    THEN Obj([id |-> OrElse(posting.id, Null), error |-> posting.error])
  ELSE
    LET common ==
          [ id |-> posting.id, title |-> posting.title,
            subtitle |-> posting.subtitle, error |-> Null,
            availableInteractions |->
              Arr(posting.application.availableInteractions),
            tags |-> Arr(posting.application.tags),
            statusData |-> EntriesOf(posting.status.data),
            jobData |-> EntriesOf(posting.job.data),
            applicationData |-> EntriesOf(posting.application.data),
            companyData |-> EntriesOf(posting.company.data) ]
        sr == posting.statsRatings.v.parsed.v
        sat == sr.satisfaction
        qr == sr.questionRating
    IN IF source = "sfu-myexperience" THEN Obj(common)
       ELSE Obj(common @@
         [ preScreening |-> Bool(posting.application.parsed.preScreening),
           serviceTeamData |-> EntriesOf(posting.serviceTeam.data),
           statsRatings |->
             IF ~Truthy(posting.statsRatings) THEN Null
             ELSE Obj(
               [ overallRating |-> OrElse(sr.overallRating, Null),
                 hired |-> sr.hired,
                 percentByFaculty |->
                   Obj([ division |->
                           EntriesOf(sr.percentByFaculty.v.division) ]),
                 satisfaction |->
                   IF ~Truthy(sat) THEN Null
                   ELSE Obj([ allCoop |-> sat.v.allCoop,
                              organization |->
                                Obj([sat.v.organization.v EXCEPT
                                       !.distribution = OrElse(@, Null)]) ]),
                 questionRating |->
                   IF ~Truthy(qr) THEN Null
                   ELSE Obj([ allCoop |-> qr.v.allCoop,
                              organization |->
                                OrElse(qr.v.organization, Null) ]) ]) ])

\* the text JSON.stringify yields for a PostingError: every property that
\* is not undefined, with its value
JSONProperty(name, x) ==
  IF x.t = "undefined" THEN << >>
  ELSE IF x.t = "null" THEN <<name, ":", "null", ",">>
  ELSE <<name, ":">> \o x.v \o <<",">>

\* serializablePosting of waterlooworks
serializablePosting(posting) ==
  IF posting.error.t = "string"
    THEN Str(<<"{">> \o JSONProperty("id", posting.id)
                     \o JSONProperty("error", posting.error)
                     \o JSONProperty("title", posting.title) \o <<"}">>)
  ELSE
    LET sr == posting.statsRatings.v.parsed.v IN
    Obj([ id |-> posting.id, title |-> posting.title,
          subtitle |-> posting.subtitle, error |-> Undefined,
          status |-> posting.status,
          application |->
            [ data |-> EntriesOf(posting.application.data),
              parsed |-> posting.application.parsed ],
          company |->
            [ data |-> EntriesOf(posting.company.data),
              parsed |-> posting.company.parsed ],
          statsRatings |->
            IF ~Truthy(posting.statsRatings) THEN Null
            ELSE Obj([ parsed |-> Obj(
              [sr EXCEPT
                 !.percentByFaculty =
                    Obj([division |-> EntriesOf(@.v.division)]),
                 !.questionRating =
                    IF @.t = "object"
                      THEN Obj([@.v EXCEPT
                                  !.questions = Str(<<"[**QUESTION_LIST**]">>)])
                      ELSE Obj([ questions |->
                                   Str(<<"[**QUESTION_LIST**]">>) ])]) ]),
          serviceTeam |->
            [ data |-> EntriesOf(posting.serviceTeam.data),
              parsed |-> posting.serviceTeam.parsed ],
          job |->
            [ data |-> EntriesOf(posting.job.data),
              parsed |-> posting.job.parsed ] ])

\* fromSerializablePosting of waterlooworks
fromSerializablePosting(posting) ==
  [id |-> Undefined, error |-> Str(<<"yes">>)]

\* --------------------------------------------------------- the assembler
\* extractPostingCommon: id, title, subtitle and the status table
extractPostingCommon(page) ==
  [ id |-> page.id, title |-> page.title, subtitle |-> page.subtitle,
    statusData |-> MapOf(page.statusData) ]

\* extractPostingDetails of the three sources
extractPostingDetails(page) ==
  LET commonData == extractPostingCommon(page)
      id == commonData.id
      tableData == page.tableData
      jobData == priorityMatch(tableData,
                   << <<"job", " ", "posting">>, <<"job">>, <<"posting">> >>)
      appData == priorityMatch(tableData, << <<"application">> >>)
      companyData == priorityMatch(tableData, << <<"company">> >>)
      serviceTeamData == priorityMatch(tableData,
                           << <<"service", " ", "team">>, <<"service">> >>)
      tags == page.tags
      incomplete ==
        \/ ~Truthy(jobData) \/ ~Truthy(appData) \/ ~Truthy(companyData)
        \/ ~Truthy(tags)
  IN IF page.source = "sfu-myexperience"
       THEN IF incomplete THEN Returned(PostingError(id, ErrIncomplete))
            ELSE parsePostingData(page.source,
                   Obj(commonData @@
                     [ error |-> Null,
                       availableInteractions |-> Arr(page.interactions),
                       tags |-> tags, jobData |-> jobData,
                       applicationData |-> appData,
                       companyData |-> companyData ]))
     ELSE IF page.source = "myexperience"
       THEN IF incomplete \/ ~Truthy(serviceTeamData)
              THEN Returned(PostingError(id, ErrIncomplete))
            ELSE parsePostingData(page.source,
                   Obj(commonData @@
                     [ error |-> Null,
                       preScreening |-> Bool(page.preScreening),
                       availableInteractions |-> Arr(page.interactions),
                       tags |-> tags, jobData |-> jobData,
                       applicationData |-> appData,
                       companyData |-> companyData,
                       serviceTeamData |-> serviceTeamData,
                       statsRatings |-> Null ]))
     ELSE IF incomplete \/ ~Truthy(serviceTeamData)
            THEN Thrown(<<ErrIncomplete>>)
          ELSE Returned(PostingOf(page.source,
                 [ id |-> id, title |-> commonData.title,
                   subtitle |-> commonData.subtitle, tags |-> tags.v,
                   availableInteractions |-> page.interactions,
                   statusData |-> commonData.statusData,
                   jobData |-> jobData, appData |-> appData,
                   companyData |-> companyData,
                   serviceTeamData |-> serviceTeamData,
                   preScreening |-> page.preScreening,
                   statsRatings |-> Undefined ]))

\* ------------------------------------------------- field resolver inputs
\* entries of a table and candidates of a lookup
MaxEntries == 3
MaxCandidates == 2

\* sequences over S of length at most n
SeqsUpTo(S, n) == UNION { [1..m -> S] : m \in 0..n }

\* a table of distinct keys, each with a value that names it, and the
\* candidates of a lookup
Lookups ==
  LET KeyPool == { <<"Job", " ", "Title">>, <<"Title">>,
                   <<"Job", " ", "Type">>, <<"Region">> }
      CandidatePool == { <<"job", " ", "title">>, <<"title">>,
                         <<" ", "JOB", " ">>, <<"type">>, <<" ">> }
      distinct(ks) == \A i, j \in 1..Len(ks) : ks[i] = ks[j] => i = j
  IN { [ kind |-> "lookup",
         map |-> MapOf([k \in 1..Len(ks) |->
                   << Str(ks[k]), Str(<<"value of">> \o ks[k]) >>]),
         options |-> os ] :
         ks \in { s \in SeqsUpTo(KeyPool, MaxEntries) : distinct(s) },
         os \in SeqsUpTo(CandidatePool, MaxCandidates) }

\* ----------------------------------------------------- normalizer inputs
\* phrases joined into one text
MaxPhrases == 2

Phrases(fn) ==
  CASE fn = "parseJobPostingStatus" ->
         { <<"Approved">>, <<"EXPIRED">>, <<"Pending">>, <<" ">> }
    [] fn = "parseInternalStatus" ->
         { <<"Partially", " ", "Filled">>, <<"Filled">>,
           <<"Rankings", " ", "Finalized">>, <<"Interview", " ", "Complete">>,
           <<"Interview", " ", "Selections", " ", "Complete">>, <<"Expired">>,
           <<"Available">>, <<"Open">>, <<"Applications">>,
           <<"Cancel", "led">>, <<"Draft">> }
    [] fn = "parseApplicationStatus" ->
         { <<"Applied">>, <<"Shortlisted">>, <<"Not", " ", "Interested">>,
           <<"Expired">>, <<"Available">>, <<"Draft">> }
    [] fn = "parseInterviewStatus" ->
         { <<"Applied">>, <<"Not", " ", "Selected">>, <<"Selected">>,
           <<"Interview">>, <<"Employed">>, <<"None">>, <<"Draft">> }
    [] fn \in { "parseJobDuration", "waterlooworks/parseJobDuration",
                "sfu-myexperience/parseJobDuration",
                "pdportal/parseJobDuration", "other/parseJobDuration" } ->
         { <<"4">>, <<"Four">>, <<"8">>, <<"eight">>, <<"1", "2">>,
           <<"twelve">>, <<"month">>, <<"prefer", "red">>, <<"Required">>,
           <<"2", " ", "work">>, <<"term">>, <<"1", "6">>,
           <<"4", " ", "or", " ", "8", " ", "month", " ", "co-op">>,
           <<"8", " ", "Month", " ", "Required">>,
           <<"8", " ", "month", " ", "prefer", "red">>,
           <<"2", " ", "work", " ", "term", " ", "Required">> }
    [] fn = "parseJobLevels" ->
         { <<"Junior">>, <<"INTERMEDIATE">>, <<"Senior">>, <<"Entry">> }
    [] fn = "parseApplicationDocument" ->
         { <<"Cover">>, <<"Letter">>, <<"Grade">>, <<"Report">>, <<"Work">>,
           <<"History">>, <<"SIS">>, <<"Transcript">>, <<"Re'sume'">>,
           <<"Other">>, <<"Portfolio">> }
    [] fn = "parseWorkTermTerm" ->
         { <<"Fall">>, <<"Winter">>, <<"Spring">>, <<"Summer">> }
    [] fn = "sfu-myexperience/parseInternalStatus" ->
         { <<"Part", "ially", " ", "Filled">>, <<"Filled">>,
           <<"Externally">>, <<"Un", "filled">>,
           <<"Rankings", " ", "Finalized">>, <<"Interview", " ", "Complete">>,
           <<"Interview", " ", "Selections", " ", "Complete">>,
           <<"Interview">>, <<"Phase">>, <<"Offer">>, <<"Expired">>,
           <<"Available">>, <<"Open">>, <<"Applications">>,
           <<"Cancel", "led">>, <<"Not", " ", "Set">>, <<"Draft">> }
    [] fn = "other/parseApplicationDocument" ->
         { <<"Cover">>, <<"Letter">>, <<"Transcript">>, <<"Summary">>,
           <<"Work">>, <<"History">>, <<"Re'sume'">>, <<"Other">>,
           <<"Portfolio">> }

RECURSIVE JoinPhrases(_)
\* the phrases of ps separated by single spaces
JoinPhrases(ps) ==
  IF Len(ps) = 0 THEN << >>
  ELSE IF Len(ps) = 1 THEN ps[1]
  ELSE ps[1] \o <<" ">> \o JoinPhrases(Tail(ps))

NormalizerInputs ==
  UNION { { [kind |-> "text", fn |-> fn, text |-> JoinPhrases(ps)] :
              ps \in SeqsUpTo(Phrases(fn), MaxPhrases) } :
          fn \in Normalizers \cup SourceVariants }

\* -------------------------------------------------- posting page inputs
JobTable ==
  MapOf(<< << Str(<<"Job", " ", "Title">>), Str(<<"Developer">>) >>,
           << Str(<<"Level">>), Str(<<"Junior", " ", "Intermediate">>) >>,
           << Str(<<"Work", " ", "Term", " ", "Duration">>),
              Str(<<"4", " ", "month">>) >> >>)

ApplicationTable ==
  MapOf(<< << Str(<<"Application", " ", "Method">>), Str(<<"Online">>) >> >>)

CompanyTable ==
  MapOf(<< << Str(<<"Organization">>), Str(<<"Acme">>) >>,
           << Str(<<"Division">>), Str(<<"Research">>) >> >>)

ServiceTeamTable == MapOf(<< << Str(<<"AM">>), Str(<<"Pat">>) >> >>)

\* the panels of a posting page, by heading
AllPanels ==
  << << Str(<<"Job", " ", "Posting", " ", "Information">>), JobTable >>,
     << Str(<<"Application", " ", "Information">>), ApplicationTable >>,
     << Str(<<"Company", " ", "Information">>), CompanyTable >>,
     << Str(<<"Service", " ", "Team">>), ServiceTeamTable >> >>

\* every panel present, or one of them absent
PanelSets ==
  { MapOf(AllPanels) } \cup
  { MapOf(SelectSeq(AllPanels, LAMBDA e : e[1] /= AllPanels[k][1])) :
      k \in 1..Len(AllPanels) }

\* what extractPostingStatsRatings yields: nothing, the least, or all of it
RatingsSets ==
  { Undefined,
    Obj([ parsed |-> Obj(
      [ overallRating |-> Undefined,
        hired |-> Obj([organization |-> Arr(<< >>), division |-> Arr(<< >>)]),
        percentByFaculty |-> Obj([division |-> MapOf(<< >>)]),
        satisfaction |-> Undefined,
        questionRating |-> Undefined ]) ]),
    Obj([ parsed |-> Obj(
      [ overallRating |-> Num(<<"8">>),
        hired |->
          Obj([ organization |->
                  Arr(<< Arr(<< Str(<<"Fall">>), Num(<<"2">>) >>) >>),
                division |-> Arr(<< >>) ]),
        percentByFaculty |->
          Obj([division |-> MapOf(<< << Str(<<"Math">>), Num(<<"1">>) >> >>)]),
        satisfaction |->
          Obj([ allCoop |-> Obj([rating |-> Num(<<"8">>), n |-> Num(<<"4">>)]),
                organization |->
                  Obj([ rating |-> Num(<<"7">>), n |-> Num(<<"2">>),
                        distribution |->
                          Arr(<< Undefined, Num(<<"1">>),
                                 Num(<<"0">>) >>) ]) ]),
        questionRating |->
          Obj([ questions |-> RatingsQuestions,
                allCoop |-> Arr(<< Undefined, Num(<<"4">>) >>),
                organization |-> Undefined ]) ]) ]) }

\* a posting page: its status table, panels, tags (undefined without a
\* tags panel), buttons, pre-screening marker and ratings tab
Pages ==
  [ kind : {"page"}, source : Sources, id : {Num(<<"7">>)},
    title : {Str(<<"Developer">>)}, subtitle : {Str(<<"Acme">>)},
    statusData :
      { << >>,
        << << Str(<<"Job", " ", "Posting", " ", "Status">>),
              Str(<<"Approved">>) >> >>,
        << << Str(<<"Job", " ", "Posting", " ", "Status">>),
              Str(<<"Expired">>) >> >> },
    tableData : PanelSets,
    tags :
      { Undefined, Arr(<< >>), Arr(<< Str(<<"Shortlisted">>) >>),
        Arr(<< Str(<<"Application", " ", "Submitted">>) >>),
        Arr(<< Str(<<"Shortlisted">>),
               Str(<<"Application", " ", "Submitted">>) >>) },
    interactions :
      { << >>, << Str(<<"Apply">>) >>, << Str(<<"Include">>) >>,
        << Str(<<"Apply">>), Str(<<"Include">>) >> },
    preScreening : BOOLEAN,
    ratings : RatingsSets ]

\* PostingErrors as the batch controller produces them, and with the id as
\* text or absent; title is a field the conversions have no use for
ErrorInputs ==
  [ kind : {"error"}, source : Sources,
    value : [ id : {Num(<<"7">>), Str(<<"7">>), Undefined},
              error : {Str(<<ErrPopup>>)},
              title : {Undefined, Str(<<"Developer">>)} ] ]

\* a well-formed wire record of myexperience
WireRecord(id) ==
  [ id |-> id, title |-> Str(<<"Developer">>), subtitle |-> Str(<<"Acme">>),
    error |-> Null, preScreening |-> Bool(FALSE),
    availableInteractions |-> Arr(<< Str(<<"Apply">>) >>),
    tags |-> Arr(<< >>),
    statusData |-> EntriesOf(MapOf(<< >>)),
    jobData |-> EntriesOf(JobTable),
    applicationData |-> EntriesOf(ApplicationTable),
    companyData |-> EntriesOf(CompanyTable),
    serviceTeamData |-> EntriesOf(ServiceTeamTable),
    statsRatings |-> Null ]

WireStats(organization, division) ==
  Obj([ overallRating |-> Null,
        hired |-> Obj([organization |-> organization, division |-> Arr(<< >>)]),
        percentByFaculty |-> Obj([division |-> division]),
        satisfaction |-> Null, questionRating |-> Null ])

\* wire data that is not what toPostingData writes
Malformed(id, m) ==
  LET r == WireRecord(id) IN
  CASE m = "none" -> Obj(r)
    [] m = "tags" -> Obj([r EXCEPT !.tags = Str(<<"Shortlisted">>)])
    [] m = "availableInteractions" ->
         Obj([r EXCEPT !.availableInteractions = Null])
    [] m = "table not a list" ->
         Obj([r EXCEPT !.jobData = Str(<<"Job", " ", "Title">>)])
    [] m = "table entry of one element" ->
         Obj([r EXCEPT !.companyData =
                Arr(<< Arr(<< Str(<<"Organization">>) >>) >>)])
    [] m = "table absent" -> Obj([r EXCEPT !.statusData = Undefined])
    [] m = "stats without hired" ->
         Obj([r EXCEPT !.statsRatings = Obj(
           [ overallRating |-> Null, hired |-> Undefined,
             percentByFaculty |-> Obj([division |-> Arr(<< >>)]),
             satisfaction |-> Null, questionRating |-> Null ])])
    [] m = "hired entry of three elements" ->
         Obj([r EXCEPT !.statsRatings = WireStats(
           Arr(<< Arr(<< Str(<<"Fall">>), Num(<<"2">>), Num(<<"1">>) >>) >>),
           Arr(<< >>))])
    [] m = "hired entry null" ->
         Obj([r EXCEPT !.statsRatings = WireStats(Arr(<< Null >>), Arr(<< >>))])
    [] m = "stats map" ->
         Obj([r EXCEPT !.statsRatings = WireStats(Arr(<< >>), Num(<<"1">>))])
    [] m = "list of records" -> Arr(<< Obj(r) >>)
    [] m = "null" -> Null
    [] m = "undefined" -> Undefined

WireInputs ==
  { [kind |-> "wire", source |-> "myexperience", data |-> Malformed(id, m)] :
      id \in {Num(<<"7">>), Str(<<"7">>)},
      m \in { "none", "tags", "availableInteractions", "table not a list",
              "table entry of one element", "table absent",
              "stats without hired", "hired entry of three elements",
              "hired entry null", "stats map", "list of records", "null",
              "undefined" } }

NoInput == [kind |-> "none"]

VARIABLES
  listing,      \* the site's listing pages
  opts,         \* options of the call
  hasPag,       \* the page has a pagination region
  active,       \* page number the pagination region shows as active
  rowsPage,     \* listing page whose rows the table shows
  pagText,      \* raw text of the pagination region
  pc,           \* position of the controller flow
  failure,      \* message of the error the call threw, "" if none
  listener,     \* popupHandler is registered on the listing page
  openedPage,   \* the single-slot mailbox: NoPage or the popup of a click
  pending,      \* clicks whose popup has not been announced yet
  waiting,      \* popups whose callback waits for the mailbox to empty
  done,         \* the seen-set
  results,      \* the result list
  pageNo,       \* loop counter i of the page loop
  plist,        \* plist.results of the current listing page
  ri,           \* index of the current row in plist
  jobs,         \* the extraction tasks of the current listing page
  nPages,       \* claimed pages whose extraction has not finished
  poll,         \* loop counter i of the popup poll loop
  lastText,     \* stripped pagination text read before clicking next
  clicks,       \* ids of the rows clicked so far, in click order
  nextClicks,   \* number of clicks on the next-page link
  faults,       \* extraction tasks that threw or returned an error
  late,         \* clicks whose poll window ran out
  resolved,     \* per click: Awaiting, TimedOut, or the popup claimed for it
  input,        \* the value handed to the conversion functions, NoInput in a
                \* batch call
  calls         \* the applications of conversion functions: fn, arg, ret

vars == << listing, opts, hasPag, active, rowsPage, pagText, pc, failure,
           listener, openedPage, pending, waiting, done, results, pageNo,
           plist, ri, jobs, nPages, poll, lastText, clicks, nextClicks,
           faults, late, resolved, input, calls >>

\* the state of the batch controller, and of the conversion functions
batchVars == << listing, opts, hasPag, active, rowsPage, pagText, pc, failure,
                listener, openedPage, pending, waiting, done, results,
                pageNo, plist, ri, jobs, nPages, poll, lastText, clicks,
                nextClicks, faults, late, resolved >>
dataVars == << input, calls >>

siteVars == << listing, opts, hasPag, active, rowsPage, pagText >>
popupVars == << openedPage, pending, waiting >>
rowVars == << plist, ri, jobs, nPages, poll >>

\* positions at which the controller flow is suspended in an await
YieldPoints == { "entry", "firstPage", "readPage", "slotWait", "pollWait",
                 "delayWait", "join", "readPag", "navWait" }

Init ==
  /\ \/ /\ listing \in SmallListings
        /\ opts \in SmallOptions
        /\ hasPag \in BOOLEAN
        /\ active \in 1..Len(listing)
     \/ /\ listing \in BigListings
        /\ opts \in BigOptions
        /\ hasPag = TRUE
        /\ active = 1
  /\ rowsPage = active
  /\ pagText = PagTextOf(active)
  /\ pc = "entry"
  /\ failure = ""
  /\ listener = FALSE
  /\ openedPage = NoPage
  /\ pending = {}
  /\ waiting = {}
  /\ done = {}
  /\ results = << >>
  /\ pageNo = 0
  /\ plist = << >>
  /\ ri = 1
  /\ jobs = << >>
  /\ nPages = 0
  /\ poll = 0
  /\ lastText = << >>
  /\ clicks = << >>
  /\ nextClicks = 0
  /\ faults = 0
  /\ late = 0
  /\ resolved = << >>
  /\ input = NoInput
  /\ calls = << >>

\* ------------------------------------------------------------- helpers
Entry(id, error) == [id |-> id, error |-> error]

\* rows of a listing page that have no id or an id of the seen-set
Repeats(rows, seen) ==
  { k \in 1..Len(rows) : rows[k] = NoId \/ rows[k] \in seen }

\* variant: the threshold itself already aborts
TooManyRepeatsAtThreshold(rows, seen) ==
  Cardinality(Repeats(rows, seen)) >= DupThreshold

TooManyRepeats(rows, seen) == Cardinality(Repeats(rows, seen)) > DupThreshold

\* variant: the seen-set is not consulted
SkipsNever(id, seen) == FALSE

\* variant: done.has(id) alone, a missing id counts as seen once added
SkipsAnySeen(id, seen) == id \in seen

\* if (id && done.has(id)) continue
Skips(id, seen) == id /= NoId /\ id \in seen

\* while (options?.maxConcurrency && nPages > options.maxConcurrency)
MustWaitForSlot(maxConc, n) == maxConc /= 0 /\ n > maxConc

\* for (let i = 0; !options?.maxPages || i < options.maxPages; i++)
LoopContinues(maxPages, i) == maxPages = 0 \/ i < maxPages

\* li.active + li:not(.disabled): the next-page link is enabled
HasNext == active < Len(listing)

\* variant: no catch handler, a throwing extraction rejects the promise
SettleUncaught(rowId, pageId, outcome) ==
  IF outcome = "throw"
    THEN [st |-> "rejected", val |-> Entry(rowId, ErrCaught)]
    ELSE IF outcome = "incomplete"
      THEN [st |-> "fulfilled", val |-> Entry(pageId, ErrIncomplete)]
      ELSE [st |-> "fulfilled", val |-> Entry(pageId, ErrNone)]

\* How the promise pushed onto jobs settles:
\*   extractPostingData(savedPage).catch(e => ({id, error})).finally(...)
\* outcome "posting": a Posting carrying the id read from the popup page;
\* "incomplete": extractPostingDetails returned a PostingError with that id;
\* "throw": the extraction threw and the catch handler built the error.
Settle(rowId, pageId, outcome) ==
  IF outcome = "throw"
    THEN [st |-> "fulfilled", val |-> Entry(rowId, ErrCaught)]
    ELSE IF outcome = "incomplete"
      THEN [st |-> "fulfilled", val |-> Entry(pageId, ErrIncomplete)]
      ELSE [st |-> "fulfilled", val |-> Entry(pageId, ErrNone)]

AllSettled == \A k \in 1..Len(jobs) : jobs[k].st /= "running"
AnyRejected == \E k \in 1..Len(jobs) : jobs[k].st = "rejected"
JobValues == [k \in 1..Len(jobs) |-> jobs[k].val]

\* ------------------------------------------------- controller: exit paths
\* variant: no finally clause, a throw leaves the listener registered
ThrowWithoutFinally(msg) ==
  /\ pc' = "thrown"
  /\ failure' = msg
  /\ UNCHANGED listener

\* a throw inside the try block runs the finally clause: page.off("popup")
Throw(msg) ==
  /\ pc' = "thrown"
  /\ failure' = msg
  /\ listener' = FALSE

Return ==
  /\ pc' = "returned"
  /\ listener' = FALSE
  /\ UNCHANGED failure

\* --------------------------------------------------- controller: actions
\* entry of extractPostingsData up to the try block
EnterBatch ==
  /\ pc = "entry"
  /\ IF ~hasPag
       THEN /\ pc' = "thrown"
            /\ failure' = FailNoPagination
            /\ UNCHANGED << listener, active, rowsPage, pagText >>
       ELSE /\ IF opts.startOnCurrent
                 THEN UNCHANGED << active, rowsPage, pagText >>
                 ELSE \E a \in {1, active} :
                        /\ active' = a
                        /\ rowsPage' = a
                        /\ pagText' = PagTextOf(a)
            /\ listener' = TRUE
            /\ pc' = "pageHead"
            /\ UNCHANGED failure
  /\ done' = {}
  /\ results' = << >>
  /\ UNCHANGED dataVars
  /\ UNCHANGED << listing, opts, hasPag, popupVars, pageNo, rowVars, lastText,
                  clicks, nextClicks, faults, late, resolved >>

\* the condition of the page loop
PageLoopCheck ==
  /\ pc = "pageHead"
  /\ IF LoopContinues(opts.maxPages, pageNo)
       THEN pc' = "readPage" /\ UNCHANGED << failure, listener >>
       ELSE Return
  /\ UNCHANGED dataVars
  /\ UNCHANGED << siteVars, popupVars, done, results, pageNo, rowVars,
                  lastText, clicks, nextClicks, faults, late, resolved >>

\* find the table of postings, apply the repeat threshold, reset jobs/nPages
ReadPage ==
  /\ pc = "readPage"
  /\ LET rows == listing[rowsPage] IN
       IF Len(rows) = 0
         THEN /\ Throw(FailNoTable)
              /\ UNCHANGED rowVars
         ELSE IF TooManyRepeats(rows, done)
           THEN /\ Throw(FailTooMany)
                /\ plist' = rows
                /\ UNCHANGED << ri, jobs, nPages, poll >>
           ELSE /\ plist' = rows
                /\ ri' = 1
                /\ jobs' = << >>
                /\ nPages' = 0
                /\ pc' = "rowHead"
                /\ UNCHANGED << failure, listener, poll >>
  /\ UNCHANGED dataVars
  /\ UNCHANGED << siteVars, popupVars, done, results, pageNo, lastText,
                  clicks, nextClicks, faults, late, resolved >>

\* head of the row loop: dedup check, done.add, click
RowHead ==
  /\ pc = "rowHead"
  /\ IF ri > Len(plist)
       THEN /\ pc' = "join"
            /\ UNCHANGED << done, clicks, pending, resolved, ri >>
       ELSE IF Skips(plist[ri], done)
         THEN /\ ri' = ri + 1
              /\ UNCHANGED << pc, done, clicks, pending, resolved >>
         ELSE /\ done' = done \cup {plist[ri]}
              /\ clicks' = Append(clicks, plist[ri])
              /\ pending' = pending \cup {Len(clicks) + 1}
              /\ resolved' = Append(resolved, Awaiting)
              /\ pc' = "slotCheck"
              /\ UNCHANGED ri
  /\ UNCHANGED dataVars
  /\ UNCHANGED << siteVars, failure, listener, openedPage, waiting, results,
                  pageNo, plist, jobs, nPages, poll, lastText, nextClicks,
                  faults, late >>

\* the concurrency wait loop, entered after the click
SlotCheck ==
  /\ pc = "slotCheck"
  /\ IF MustWaitForSlot(opts.maxConcurrency, nPages)
       THEN pc' = "slotWait" /\ UNCHANGED poll
       ELSE pc' = "pollCheck" /\ poll' = 0
  /\ UNCHANGED dataVars
  /\ UNCHANGED << siteVars, failure, listener, popupVars, done, results,
                  pageNo, plist, ri, jobs, nPages, lastText, clicks,
                  nextClicks, faults, late, resolved >>

\* await delay(250) is over
SlotWake ==
  /\ pc = "slotWait"
  /\ pc' = "slotCheck"
  /\ UNCHANGED dataVars
  /\ UNCHANGED << siteVars, failure, listener, popupVars, done, results,
                  pageNo, rowVars, lastText, clicks, nextClicks, faults, late,
                  resolved >>

\* if (openedPage === null) await delay(100); else break;
PollCheck ==
  /\ pc = "pollCheck"
  /\ pc' = IF openedPage = NoPage THEN "pollWait" ELSE "claim"
  /\ UNCHANGED dataVars
  /\ UNCHANGED << siteVars, failure, listener, popupVars, done, results,
                  pageNo, rowVars, lastText, clicks, nextClicks, faults, late,
                  resolved >>

\* The bound MaxLate on missed poll windows: once it is used up, the round
\* before the last one does not end while the mailbox is empty, so that the
\* popup is found by the last test of the loop.
LastRoundAllowed ==
  (poll + 1 = PollLimit /\ openedPage = NoPage) => late < MaxLate

\* variant: the poll loop is left for the next row without a report
PollWakeGivesUp ==
  /\ pc = "pollWait"
  /\ ri' = ri + 1
  /\ pc' = "rowHead"
  /\ UNCHANGED dataVars
  /\ UNCHANGED << siteVars, failure, listener, popupVars, done, results,
                  pageNo, plist, jobs, nPages, poll, lastText, clicks,
                  nextClicks, faults, late, resolved >>

\* variant: a row whose popup never came is treated as fatal for the call
PollWakeFatal ==
  /\ pc = "pollWait"
  /\ IF poll = PollLimit
       THEN /\ late < MaxLate
            /\ late' = late + 1
            /\ results' = Append(results, Entry(plist[ri], ErrPopup))
            /\ resolved' = [resolved EXCEPT ![Len(clicks)] = TimedOut]
            /\ Throw(ErrPopup)
            /\ UNCHANGED << poll, ri >>
       ELSE /\ LastRoundAllowed
            /\ poll' = poll + 1
            /\ pc' = "pollCheck"
            /\ UNCHANGED << results, ri, late, resolved, failure, listener >>
  /\ UNCHANGED dataVars
  /\ UNCHANGED << siteVars, popupVars, done, pageNo, plist, jobs, nPages,
                  lastText, clicks, nextClicks, faults >>

\* await delay(100) is over: the last round reports the row, others loop
PollWake ==
  /\ pc = "pollWait"
  /\ IF poll = PollLimit
       THEN /\ late < MaxLate
            /\ late' = late + 1
            /\ results' = Append(results, Entry(plist[ri], ErrPopup))
            /\ resolved' = [resolved EXCEPT ![Len(clicks)] = TimedOut]
            /\ ri' = ri + 1
            /\ pc' = "rowHead"
            /\ UNCHANGED poll
       ELSE /\ LastRoundAllowed
            /\ poll' = poll + 1
            /\ pc' = "pollCheck"
            /\ UNCHANGED << results, ri, late, resolved >>
  /\ UNCHANGED dataVars
  /\ UNCHANGED << siteVars, failure, listener, popupVars, done, pageNo,
                  plist, jobs, nPages, lastText, clicks, nextClicks, faults >>

\* claim the popup in the mailbox and start its extraction
Claim ==
  /\ pc = "claim"
  /\ jobs' = Append(jobs, [id |-> plist[ri], page |-> openedPage,
                           st |-> "running", how |-> "running",
                           closed |-> FALSE,
                           val |-> Entry(NoId, ErrNone)])
  /\ nPages' = nPages + 1
  /\ openedPage' = NoPage
  /\ resolved' = [resolved EXCEPT ![Len(clicks)] = openedPage]
  /\ IF opts.delay
       THEN pc' = "delayWait" /\ UNCHANGED ri
       ELSE pc' = "rowHead" /\ ri' = ri + 1
  /\ UNCHANGED dataVars
  /\ UNCHANGED << siteVars, failure, listener, pending, waiting, done,
                  results, pageNo, plist, poll, lastText, clicks, nextClicks,
                  faults, late >>

\* await delay(options.delay) is over
DelayWake ==
  /\ pc = "delayWait"
  /\ pc' = "rowHead"
  /\ ri' = ri + 1
  /\ UNCHANGED dataVars
  /\ UNCHANGED << siteVars, failure, listener, popupVars, done, results,
                  pageNo, plist, jobs, nPages, poll, lastText, clicks,
                  nextClicks, faults, late, resolved >>

\* variant: the values are taken without waiting for the running tasks
JoinWithoutWaiting ==
  /\ pc = "join"
  /\ results' = results \o JobValues
  /\ pc' = "readPag"
  /\ UNCHANGED dataVars
  /\ UNCHANGED << siteVars, failure, listener, popupVars, done, pageNo,
                  rowVars, lastText, clicks, nextClicks, faults, late,
                  resolved >>

\* for (const j of await Promise.all(jobs)) results.push(j)
Join ==
  /\ pc = "join"
  /\ IF AnyRejected
       THEN Throw(FailRejected) /\ UNCHANGED results
       ELSE /\ AllSettled
            /\ results' = results \o JobValues
            /\ pc' = "readPag"
            /\ UNCHANGED << failure, listener >>
  /\ UNCHANGED dataVars
  /\ UNCHANGED << siteVars, popupVars, done, pageNo, rowVars, lastText,
                  clicks, nextClicks, faults, late, resolved >>

\* read the pagination text, then click next or leave the loop
ReadPagination ==
  /\ pc = "readPag"
  /\ lastText' = StripSpace(pagText)
  /\ IF HasNext
       THEN /\ nextClicks' = nextClicks + 1
            /\ pc' = "navWait"
            /\ UNCHANGED << failure, listener >>
       ELSE Return /\ UNCHANGED nextClicks
  /\ UNCHANGED dataVars
  /\ UNCHANGED << siteVars, popupVars, done, results, pageNo, rowVars,
                  clicks, faults, late, resolved >>

\* page.waitForFunction resolved: i++ and back to the loop condition
NavConfirmed ==
  /\ pc = "navWait"
  /\ AdvanceConfirmed(pagText, lastText)
  /\ pageNo' = pageNo + 1
  /\ pc' = "pageHead"
  /\ UNCHANGED dataVars
  /\ UNCHANGED << siteVars, failure, listener, popupVars, done, results,
                  rowVars, lastText, clicks, nextClicks, faults, late,
                  resolved >>

\* page.waitForFunction timed out
NavTimeout ==
  /\ pc = "navWait"
  /\ ~AdvanceConfirmed(pagText, lastText)
  /\ Throw(FailNavTimeout)
  /\ UNCHANGED dataVars
  /\ UNCHANGED << siteVars, popupVars, done, results, pageNo, rowVars,
                  lastText, clicks, nextClicks, faults, late, resolved >>

\* ------------------------------------------------------- popup callback
Suspended == pc \in YieldPoints

\* variant: the callback assigns the mailbox without looking at it
PopupHandlerOverwrites(c) ==
  /\ Suspended
  /\ listener
  /\ c \in pending
  /\ pending' = pending \ {c}
  /\ openedPage' = c
  /\ UNCHANGED dataVars
  /\ UNCHANGED << siteVars, pc, failure, listener, waiting, done, results,
                  pageNo, rowVars, lastText, clicks, nextClicks, faults, late,
                  resolved >>

\* the popup of click c is announced: popupHandler(popup) runs up to its
\* first await, or to its end when the mailbox is empty
PopupHandler(c) ==
  /\ Suspended
  /\ listener
  /\ c \in pending
  /\ pending' = pending \ {c}
  /\ IF openedPage = NoPage
       THEN openedPage' = c /\ UNCHANGED waiting
       ELSE waiting' = waiting \cup {c} /\ UNCHANGED openedPage
  /\ UNCHANGED dataVars
  /\ UNCHANGED << siteVars, pc, failure, listener, done, results, pageNo,
                  rowVars, lastText, clicks, nextClicks, faults, late,
                  resolved >>

\* a suspended popupHandler wakes from delay(100) and finds the mailbox empty
PopupHandlerWake(c) ==
  /\ Suspended
  /\ c \in waiting
  /\ openedPage = NoPage
  /\ openedPage' = c
  /\ waiting' = waiting \ {c}
  /\ UNCHANGED dataVars
  /\ UNCHANGED << siteVars, pc, failure, listener, pending, done, results,
                  pageNo, rowVars, lastText, clicks, nextClicks, faults, late,
                  resolved >>

\* ----------------------------------------------------- extraction tasks
\* variant: the task pushes its value onto the result list itself
JobSettlesAndPushes(k, outcome) ==
  /\ Suspended
  /\ k \in 1..Len(jobs)
  /\ jobs[k].st = "running"
  /\ IF outcome = "posting"
       THEN UNCHANGED faults
       ELSE faults < MaxFaults /\ faults' = faults + 1
  /\ LET s == Settle(jobs[k].id, clicks[jobs[k].page], outcome) IN
       /\ jobs' = [jobs EXCEPT ![k].st = s.st, ![k].val = s.val,
                               ![k].how = outcome, ![k].closed = TRUE]
       /\ results' = Append(results, s.val)
  /\ nPages' = nPages - 1
  /\ UNCHANGED dataVars
  /\ UNCHANGED << siteVars, pc, failure, listener, popupVars, done,
                  pageNo, plist, ri, poll, lastText, clicks, nextClicks, late,
                  resolved >>

\* task k settles; its finally handler closes the page and frees the slot
JobSettles(k, outcome) ==
  /\ Suspended
  /\ k \in 1..Len(jobs)
  /\ jobs[k].st = "running"
  /\ IF outcome = "posting"
       THEN UNCHANGED faults
       ELSE faults < MaxFaults /\ faults' = faults + 1
  /\ LET s == Settle(jobs[k].id, clicks[jobs[k].page], outcome) IN
       jobs' = [jobs EXCEPT ![k].st = s.st, ![k].val = s.val,
                            ![k].how = outcome, ![k].closed = TRUE]
  /\ nPages' = nPages - 1
  /\ UNCHANGED dataVars
  /\ UNCHANGED << siteVars, pc, failure, listener, popupVars, done, results,
                  pageNo, plist, ri, poll, lastText, clicks, nextClicks, late,
                  resolved >>

\* ------------------------------------------------------------ the site
NavWaiting == pc = "navWait" /\ ~AdvanceConfirmed(pagText, lastText)

\* the site shows the next listing page: pagination region and table
SiteAdvance ==
  /\ NavWaiting
  /\ active' = active + 1
  /\ rowsPage' = active + 1
  /\ pagText' = PagTextOf(active + 1)
  /\ UNCHANGED dataVars
  /\ UNCHANGED << listing, opts, hasPag, pc, failure, listener, popupVars,
                  done, results, pageNo, rowVars, lastText, clicks,
                  nextClicks, faults, late, resolved >>

\* the pagination region moves on while the table keeps its old rows
SiteStaleRows ==
  /\ NavWaiting
  /\ active' = active + 1
  /\ pagText' = PagTextOf(active + 1)
  /\ UNCHANGED dataVars
  /\ UNCHANGED << listing, opts, hasPag, rowsPage, pc, failure, listener,
                  popupVars, done, results, pageNo, rowVars, lastText, clicks,
                  nextClicks, faults, late, resolved >>

\* the pagination region shows a placeholder without the marker
SiteLoading ==
  /\ NavWaiting
  /\ pagText /= LoadingText
  /\ pagText' = LoadingText
  /\ UNCHANGED dataVars
  /\ UNCHANGED << listing, opts, hasPag, active, rowsPage, pc, failure,
                  listener, popupVars, done, results, pageNo, rowVars,
                  lastText, clicks, nextClicks, faults, late, resolved >>

\* the pagination region is re-rendered with other whitespace only
SiteReflow ==
  /\ NavWaiting
  /\ pagText = PagTextOf(active)
  /\ pagText' = [k \in 1..Len(pagText) |->
                   IF IsSpace(pagText[k]) THEN "\n" ELSE pagText[k]]
  /\ UNCHANGED dataVars
  /\ UNCHANGED << listing, opts, hasPag, active, rowsPage, pc, failure,
                  listener, popupVars, done, results, pageNo, rowVars,
                  lastText, clicks, nextClicks, faults, late, resolved >>

Outcomes == {"posting", "incomplete", "throw"}

PopupAnnounced == \E c \in 1..Len(clicks) : PopupHandler(c)
PopupDelivered == \E c \in 1..Len(clicks) : PopupHandlerWake(c)
JobSettled == \E k \in 1..Len(jobs), o \in Outcomes : JobSettles(k, o)

Next ==
  \/ EnterBatch
  \/ PageLoopCheck
  \/ ReadPage
  \/ RowHead
  \/ SlotCheck
  \/ SlotWake
  \/ PollCheck
  \/ PollWake
  \/ Claim
  \/ DelayWake
  \/ Join
  \/ ReadPagination
  \/ NavConfirmed
  \/ NavTimeout
  \/ PopupAnnounced
  \/ PopupDelivered
  \/ JobSettled
  \/ SiteAdvance
  \/ SiteStaleRows
  \/ SiteLoading
  \/ SiteReflow

Spec == Init /\ [][Next]_vars

\* The event loop runs every timer and continuation that is due, so each
\* controller step is weakly fair.  An extraction task settles in bounded
\* time (every wait inside it has a timeout) and a popup that was opened is
\* announced; both can only run while the controller is suspended, hence
\* strong fairness.
ControllerStep ==
  \/ EnterBatch \/ PageLoopCheck \/ ReadPage \/ RowHead \/ SlotCheck
  \/ SlotWake \/ PollCheck \/ PollWake \/ Claim \/ DelayWake \/ Join
  \/ ReadPagination \/ NavConfirmed \/ NavTimeout

FairSpec ==
  /\ Spec
  /\ WF_vars(ControllerStep)
  /\ SF_vars(JobSettled)
  /\ SF_vars(PopupAnnounced)
  /\ SF_vars(PopupDelivered)

\* ---------------------------------------------- the conversion functions
\* The functions the extraction tasks are made of run to completion
\* without an await: each is applied as one step to an input drawn in the
\* initial state, and calls records its applications in order.

\* no batch call is under way
NoBatch ==
  /\ listing = << << >> >>
  /\ opts = [ maxPages |-> 0, maxConcurrency |-> 0, delay |-> FALSE,
              startOnCurrent |-> FALSE ]
  /\ hasPag = FALSE
  /\ active = 1
  /\ rowsPage = 1
  /\ pagText = PagTextOf(1)
  /\ pc = "entry"
  /\ failure = ""
  /\ listener = FALSE
  /\ openedPage = NoPage
  /\ pending = {}
  /\ waiting = {}
  /\ done = {}
  /\ results = << >>
  /\ pageNo = 0
  /\ plist = << >>
  /\ ri = 1
  /\ jobs = << >>
  /\ nPages = 0
  /\ poll = 0
  /\ lastText = << >>
  /\ clicks = << >>
  /\ nextClicks = 0
  /\ faults = 0
  /\ late = 0
  /\ resolved = << >>

Call(fn, arg, ret) == [fn |-> fn, arg |-> arg, ret |-> ret]

\* -- field resolver
\* orders of the entries of map that keep the entries a candidate matches
\* in their places relative to each other
Matches(key, candidate) ==
  includes(toLowerCase(key), trim(toLowerCase(candidate)))

Reorderings(map, options) ==
  LET n == Len(map.v)
      perms == { f \in [1..n -> 1..n] :
                   \A i, j \in 1..n : f[i] = f[j] => i = j }
      kept(es) == SelectSeq(es, LAMBDA e :
                    \E k \in 1..Len(options) : Matches(e[1].v, options[k]))
  IN { MapOf([i \in 1..n |-> map.v[f[i]]]) : f \in
         { g \in perms : kept([i \in 1..n |-> map.v[g[i]]]) = kept(map.v) } }

ResolverInit ==
  /\ NoBatch
  /\ input \in Lookups
  /\ calls = << >>

Resolve ==
  /\ input.kind = "lookup"
  /\ calls = << >>
  /\ calls' = << Call("priorityMatch", input,
                      Returned(priorityMatch(input.map, input.options))) >>
  /\ UNCHANGED << batchVars, input >>

\* the same lookup in a table whose unmatched entries changed places
ResolveReordered ==
  /\ input.kind = "lookup"
  /\ Len(calls) = 1
  /\ \E m \in Reorderings(input.map, input.options) :
       calls' = Append(calls,
                  Call("priorityMatch", [input EXCEPT !.map = m],
                       Returned(priorityMatch(m, input.options))))
  /\ UNCHANGED << batchVars, input >>

ResolverNext == Resolve \/ ResolveReordered

ResolverSpec == ResolverInit /\ [][ResolverNext]_vars

\* -- enum normalizers
NormalizerInit ==
  /\ NoBatch
  /\ input \in NormalizerInputs
  /\ calls = << >>

NormalizeText ==
  /\ input.kind = "text"
  /\ calls = << >>
  /\ calls' = << Call(input.fn, input.text,
                      Returned(Normalize(input.fn, input.text))) >>
  /\ UNCHANGED << batchVars, input >>

NormalizerNext == NormalizeText

NormalizerSpec == NormalizerInit /\ [][NormalizerNext]_vars

\* -- posting assembler and wire codec
PostingInit ==
  /\ NoBatch
  /\ \/ input \in Pages
     \/ input \in ErrorInputs
     \/ input \in WireInputs
  /\ calls = << >>

LastCall == calls[Len(calls)]

\* extractPostingDetails on a posting page
AssembleDetails ==
  /\ input.kind = "page"
  /\ calls = << >>
  /\ calls' = << Call("extractPostingDetails", input,
                      extractPostingDetails(input)) >>
  /\ UNCHANGED << batchVars, input >>

\* extractPostingData: the details, then statsRatings from the ratings tab
MergeRatings ==
  /\ input.kind = "page"
  /\ input.source /= "sfu-myexperience"
  /\ Len(calls) = 1
  /\ LastCall.ret.t = "returned"
  /\ LastCall.ret.v.error.t /= "string"
  /\ calls' = Append(calls,
       Call("extractPostingData", input,
            Returned([LastCall.ret.v EXCEPT !.statsRatings = input.ratings])))
  /\ UNCHANGED << batchVars, input >>

EncodeWith(posting) ==
  IF input.source = "waterlooworks"
    THEN Call("serializablePosting", posting,
              Returned(serializablePosting(posting)))
    ELSE Call("toPostingData", posting,
              Returned(toPostingData(input.source, posting)))

Encode ==
  /\ \/ /\ input.kind = "error"
        /\ calls = << >>
        /\ calls' = << EncodeWith(input.value) >>
     \/ /\ input.kind = "page"
        /\ Len(calls) >= 1
        /\ LastCall.fn \in {"extractPostingDetails", "extractPostingData"}
        /\ LastCall.ret.t = "returned"
        /\ \/ input.source = "sfu-myexperience"
           \/ LastCall.fn = "extractPostingData"
           \/ LastCall.ret.v.error.t = "string"
        /\ calls' = Append(calls, EncodeWith(LastCall.ret.v))
  /\ UNCHANGED << batchVars, input >>

DecodeWith(data) ==
  IF input.source = "waterlooworks"
    THEN Call("fromSerializablePosting", data,
              Returned(fromSerializablePosting(data)))
    ELSE Call("parsePostingData", data, parsePostingData(input.source, data))

Decode ==
  /\ \/ /\ input.kind = "wire"
        /\ calls = << >>
        /\ calls' = << DecodeWith(input.data) >>
     \/ /\ input.kind \in {"page", "error"}
        /\ Len(calls) >= 1
        /\ LastCall.fn \in {"toPostingData", "serializablePosting"}
        /\ calls' = Append(calls, DecodeWith(LastCall.ret.v))
  /\ UNCHANGED << batchVars, input >>

PostingNext == AssembleDetails \/ MergeRatings \/ Encode \/ Decode

PostingSpec == PostingInit /\ [][PostingNext]_vars


\* ================================================================ claims

ClickNos == 1..Len(clicks)

\* popups that the controller has claimed from the mailbox
ClaimedPopups == { resolved[c] : c \in ClickNos } \ {Awaiting, TimedOut}

\* popups announced to the callback and not yet claimed by the controller
UnclaimedPopups ==
  (IF openedPage = NoPage THEN {} ELSE {openedPage}) \cup waiting

\* C1: within one call every non-empty record id is clicked and handed to
\* extraction at most once, whether it repeats on the same listing page or
\* on a later one.
C1_IdStartedAtMostOnce ==
  \A c1 \in ClickNos, c2 \in ClickNos :
    (c1 /= c2 /\ clicks[c1] /= NoId) => clicks[c1] /= clicks[c2]

\* a row of the second listing page was skipped because its id was clicked
\* on the first one
C1_Witness ==
  /\ pageNo = 1
  /\ pc = "rowHead"
  /\ ri > 1
  /\ plist[ri - 1] /= NoId
  /\ plist = listing[2]
  /\ Len(clicks) = Len(listing[1])
  /\ \E c \in ClickNos : clicks[c] = plist[ri - 1]

\* C2: with maxConcurrency = N >= 1 the number of claimed pages whose
\* extraction has not finished is at most N in every reachable state.
C2_AtMostNInFlight ==
  opts.maxConcurrency /= 0 => nPages <= opts.maxConcurrency

\* C3: at most one popup that was opened by a click and is not yet claimed
\* exists, counting the mailbox and the callbacks waiting for the mailbox.
C3_OneUnclaimedPopup == Cardinality(UnclaimedPopups) <= 1

\* positions between a click and the end of its poll loop
AwaitingPopup == {"slotCheck", "slotWait", "pollCheck", "pollWait", "claim"}

\* C4 as stated: a click is issued only after the popup of every earlier
\* click has been claimed; never while an earlier popup is unclaimed or has
\* not arrived.
C4_ClickOnlyAfterPopupClaimed ==
  \A c \in ClickNos : c < Len(clicks) => c \in ClaimedPopups

\* C4 as amended: a click is issued only after the previously clicked record
\* has left its poll loop, either by claiming a popup from the mailbox or by
\* running out of polls; only the latest click can be awaiting its popup,
\* and only while the controller is between that click and the end of its
\* poll loop.
C4_ClickOnlyAfterPreviousResolved ==
  \A c \in ClickNos :
    resolved[c] = Awaiting => (c = Len(clicks) /\ pc \in AwaitingPopup)

\* a click was issued after the previous record timed out, while the popup
\* of that record has not arrived
C4_Witness ==
  /\ Len(clicks) >= 2
  /\ resolved[Len(clicks) - 1] = TimedOut
  /\ (Len(clicks) - 1) \in pending
  /\ pc \in AwaitingPopup

\* C5: when the mailbox is still empty at the end of a record's last poll,
\* exactly one PostingError with the row's id is appended, no extraction is
\* started, nPages is not incremented, and the row loop goes on with the
\* next row.
C5_TimeoutIsPerRecord ==
  [][ (pc = "pollWait" /\ poll = PollLimit /\ openedPage = NoPage
         /\ pc' /= "pollWait")
      => /\ results' = Append(results, [id |-> plist[ri], error |-> ErrPopup])
         /\ jobs' = jobs
         /\ nPages' = nPages
         /\ pc' = "rowHead"
         /\ ri' = ri + 1
         /\ plist' = plist
         /\ failure' = "" ]_vars

\* a record timed out with its popup never announced, and a later row of the
\* same listing page was clicked and its popup claimed
C5_Witness ==
  \E c \in ClickNos :
    /\ resolved[c] = TimedOut
    /\ c \in pending
    /\ c < Len(clicks)
    /\ resolved[Len(clicks)] = Len(clicks)
    /\ \E k \in 1..Len(results) :
         results[k] = [id |-> clicks[c], error |-> ErrPopup]
    /\ Len(jobs) > 0

\* C6: after the click on next, the rows of the following listing page are
\* read only once the stripped pagination text differs from its value before
\* the click and contains the marker; when the wait ends without that, the
\* call throws and the results gathered so far are not returned.
C6_NextPageGated ==
  /\ [](( pc = "readPage" /\ pageNo >= 1 )
          => /\ StripSpace(pagText) /= lastText
             /\ \E k \in 1..Len(pagText) :
                  pagText[k] \in {"displaying", "Displaying", "DISPLAYING"})
  /\ [][ ( /\ pc = "navWait"
           /\ pc' /= "navWait"
           /\ ~( /\ StripSpace(pagText) /= lastText
                 /\ IncludesDisplaying(StripSpace(pagText)) ) )
         => /\ pc' = "thrown"
            /\ failure' = FailNavTimeout ]_vars
  /\ [](pc = "returned" => failure = "")

\* the wait for the next page timed out while results were already gathered
\* and the pagination text had changed to a text without the marker
C6_Witness ==
  /\ pc = "thrown"
  /\ failure = FailNavTimeout
  /\ Len(results) > 0
  /\ pagText = LoadingText
  /\ StripSpace(pagText) /= lastText

\* C7: at the start of a listing page with a table of postings, more than 5
\* rows with a missing or already seen id make the call throw before any row
\* of the page is clicked; with 5 or fewer the row loop of the page starts.
C7_RepeatThreshold ==
  /\ [][ ( pc = "readPage" /\ pc' /= "readPage"
             /\ Len(listing[rowsPage]) > 0 )
         => LET rows == listing[rowsPage]
                bad == { k \in 1..Len(rows) :
                           rows[k] = NoId \/ rows[k] \in done }
            IN  IF Cardinality(bad) > 5
                  THEN /\ pc' = "thrown"
                       /\ failure' = FailTooMany
                       /\ clicks' = clicks
                  ELSE /\ pc' = "rowHead"
                       /\ plist' = rows
                       /\ ri' = 1
                       /\ failure' = "" ]_vars
  /\ [][ pc = "thrown" => (pc' = "thrown" /\ clicks' = clicks) ]_vars

\* the second listing page repeated too many rows: the call threw with only
\* the rows of the first page clicked
C7_Witness ==
  /\ pc = "thrown"
  /\ failure = FailTooMany
  /\ pageNo = 1
  /\ Cardinality(Repeats(plist, done)) = 6
  /\ Len(clicks) = Len(listing[1])

\* C8: while the number of in-flight extractions has reached maxConcurrency
\* no click that opens a record is issued.
C8_NoClickAtTheBound ==
  [][ Len(clicks') > Len(clicks)
      => ~(opts.maxConcurrency /= 0 /\ nPages >= opts.maxConcurrency) ]_vars

\* the result entry the task of job j is to contribute
ExpectedEntry(j) ==
  IF j.how = "throw" THEN [id |-> j.id, error |-> ErrCaught]
  ELSE IF j.how = "incomplete"
    THEN [id |-> clicks[j.page], error |-> ErrIncomplete]
    ELSE [id |-> clicks[j.page], error |-> ErrNone]

\* C9: an extraction that throws yields a PostingError with the row's id,
\* the results of the other tasks of the page are pushed unchanged, and the
\* call does not throw because of it.
C9_ThrowIsPerRecord ==
  /\ [](pc = "thrown" => failure \in { FailNoPagination, FailNoTable,
                                        FailTooMany, FailNavTimeout })
  /\ [](\A k \in 1..Len(jobs) :
          jobs[k].how = "throw"
            => /\ jobs[k].st = "fulfilled"
               /\ jobs[k].val = [id |-> jobs[k].id, error |-> ErrCaught])
  /\ [][ (pc = "join" /\ pc' /= "join")
         => /\ pc' = "readPag"
            /\ Len(results') = Len(results) + Len(jobs)
            /\ \A k \in 1..Len(results) : results'[k] = results[k]
            /\ \A k \in 1..Len(jobs) :
                 results'[Len(results) + k] = ExpectedEntry(jobs[k]) ]_vars

\* the call returned with the error entry of a throwing extraction next to
\* the posting of another record
C9_Witness ==
  /\ pc = "returned"
  /\ \E k1 \in 1..Len(results), k2 \in 1..Len(results) :
       /\ results[k1].error = ErrCaught
       /\ results[k2].error = ErrNone
       /\ results[k1].id /= results[k2].id

AllRowsHaveIds ==
  \A p \in 1..Len(listing) : \A k \in 1..Len(listing[p]) :
    listing[p][k] /= NoId

\* C10: when every row has an id and the call returns, the result list holds
\* exactly one entry per distinct id seen.
C10_OneEntryPerId ==
  (pc = "returned" /\ AllRowsHaveIds)
    => /\ Len(results) = Cardinality(done)
       /\ \A id \in done :
            Cardinality({ k \in 1..Len(results) : results[k].id = id }) = 1

\* the number of entries alone does match the number of distinct ids
C10_CountOnly ==
  (pc = "returned" /\ AllRowsHaveIds) => Len(results) = Cardinality(done)

Terminated == pc \in {"returned", "thrown"}

\* every call ends, by a return or by a throw (holds under FairSpec)
C11_Terminates == <>Terminated

\* C11: a call always terminates, and it returns once no enabled next-page
\* link remains or maxPages listing pages have been processed: after the
\* maxPages-th page it does not end in the timeout of a further page change.
C11_TerminatesByReturn ==
  /\ <>Terminated
  /\ [][ ( pc = "readPag" /\ pc' /= "readPag" /\ ~HasNext )
         => pc' = "returned" ]_vars
  /\ []( ( opts.maxPages /= 0 /\ pageNo + 1 >= opts.maxPages
            /\ pc = "thrown" )
          => failure /= FailNavTimeout )

\* a step of the popup callback or of an extraction task
CallbackStep == PopupAnnounced \/ PopupDelivered \/ JobSettled

\* C12 as stated: the seen-set and the result list are the only mutable
\* state that the popup callback or an extraction task shares with the
\* controller flow, so a callback step changes neither the mailbox nor
\* nPages.
C12_OnlyDoneAndResultsShared ==
  [][ CallbackStep => UNCHANGED << openedPage, nPages >> ]_vars

\* C12 as amended: the seen-set and the result list are written by the
\* controller flow only; the mailbox and nPages are shared as well, written
\* by the popup callback and by the tasks' finally handlers.
C12_OnlyControllerWritesDoneAndResults ==
  /\ [][ CallbackStep => UNCHANGED << done, results >> ]_vars
  /\ [][ (done' /= done \/ results' /= results) => ControllerStep ]_vars

\* the callback has filled the mailbox and a task has settled and freed its
\* slot, while the value of the task is not in the result list yet
C12_Witness ==
  /\ openedPage /= NoPage
  /\ \E k \in 1..Len(jobs) : jobs[k].st = "fulfilled"
  /\ nPages < Len(jobs)
  /\ done /= {}
  /\ results = << >>

\* ----------------------------------------------------------------- C13
Encoders == {"toPostingData", "serializablePosting"}
Decoders == {"parsePostingData", "fromSerializablePosting"}

\* the application of a decoder to what the encoder made of a posting
IsRoundTrip(c) ==
  /\ c >= 2
  /\ calls[c].fn \in Decoders
  /\ calls[c - 1].fn \in Encoders
  /\ calls[c - 1].arg.error.t /= "string"

\* every field is there: the sources with ratings have their statsRatings
FullyPopulated(p) ==
  input.source = "sfu-myexperience" \/ Truthy(p.statsRatings)

\* C13: for every fully-populated Posting p, decoding the wire form of p
\* gives p again, for each source's pair of conversions.
C13_RoundTrip ==
  \A c \in 1..Len(calls) :
    (IsRoundTrip(c) /\ FullyPopulated(calls[c - 1].arg))
      => calls[c].ret = Returned(calls[c - 1].arg)

\* the round trip through toPostingData and parsePostingData alone
C13_RoundTripMyExperience ==
  \A c \in 1..Len(calls) :
    (IsRoundTrip(c) /\ calls[c].fn = "parsePostingData")
      => calls[c].ret = Returned(calls[c - 1].arg)

C13_MyExperienceWitness ==
  \E c \in 1..Len(calls) :
    /\ IsRoundTrip(c)
    /\ calls[c].fn = "parsePostingData"
    /\ input.source = "myexperience"
    /\ Truthy(calls[c - 1].arg.statsRatings)
    /\ Truthy(calls[c - 1].arg.statsRatings.v.parsed.v.satisfaction)

\* ----------------------------------------------------------------- C14
\* C14: for an input whose error field is a string, the encoder and the
\* decoder each return exactly {id, error} with the id and the error of the
\* input.
C14_ErrorShortCircuit ==
  \A c \in 1..Len(calls) :
    /\ (calls[c].fn \in Encoders /\ calls[c].arg.error.t = "string")
         => calls[c].ret =
              Returned(Obj([ id |-> calls[c].arg.id,
                             error |-> calls[c].arg.error ]))
    /\ (/\ calls[c].fn \in Decoders
        /\ calls[c].arg.t = "object"
        /\ calls[c].arg.v.error.t = "string")
         => calls[c].ret =
              Returned([ id |-> calls[c].arg.v.id,
                         error |-> calls[c].arg.v.error ])

\* ----------------------------------------------------------------- C15
IsTable(x) ==
  \/ x.t = "Map"
  \/ /\ x.t = "array"
     /\ \A k \in 1..Len(x.v) : x.v[k].t = "array" /\ Len(x.v[k].v) = 2

\* the raw tables of a wire record
TableFields ==
  IF input.source = "sfu-myexperience"
    THEN {"jobData", "applicationData", "statusData", "companyData"}
    ELSE { "jobData", "applicationData", "statusData", "companyData",
           "serviceTeamData" }

\* a record with a field of the wrong shape
WrongShape(d) ==
  \/ d.tags.t /= "array"
  \/ d.availableInteractions.t /= "array"
  \/ \E f \in TableFields : ~IsTable(d[f])
  \/ /\ input.source /= "sfu-myexperience"
     /\ Truthy(d.statsRatings)
     /\ \/ ~IsTable(Field(Field(d.statsRatings, "hired"), "organization"))
        \/ ~IsTable(Field(Field(d.statsRatings, "hired"), "division"))
        \/ ~IsTable(Field(Field(d.statsRatings, "percentByFaculty"),
                          "division"))

\* C15: parsePostingData never throws on wire data, and for a record with
\* a field of the wrong shape it returns a PostingError with the record's
\* id.
C15_NeverThrows ==
  \A c \in 1..Len(calls) :
    calls[c].fn = "parsePostingData" =>
      /\ calls[c].ret.t = "returned"
      /\ (/\ calls[c].arg.t = "object"
          /\ calls[c].arg.v.error.t /= "string"
          /\ WrongShape(calls[c].arg.v))
           => /\ calls[c].ret.v.error.t = "string"
              /\ calls[c].ret.v.id = calls[c].arg.v.id

\* what holds of the code: the listed field shapes give a PostingError,
\* unless an entry of the hired statistics is null or undefined
C15_FieldShapesGiveError ==
  \A c \in 1..Len(calls) :
    (/\ calls[c].fn = "parsePostingData"
     /\ calls[c].arg.t = "object"
     /\ calls[c].arg.v.error.t /= "string"
     /\ WrongShape(calls[c].arg.v)
     /\ calls[c].ret.t = "returned")
      => /\ calls[c].ret.v.error.t = "string"
         /\ calls[c].ret.v.id = calls[c].arg.v.id

\* ----------------------------------------------------------------- C16
HasPanel(page, words) ==
  \E k \in 1..Len(page.tableData.v) :
    \E w \in words : includes(toLowerCase(page.tableData.v[k][1].v), <<w>>)

MissingTable(page) ==
  \/ ~HasPanel(page, {"job", "posting"})
  \/ ~HasPanel(page, {"application"})
  \/ ~HasPanel(page, {"company"})
  \/ page.tags.t = "undefined"
  \/ page.source /= "sfu-myexperience" /\ ~HasPanel(page, {"service"})

\* C16: when a required table of the posting page is missing, the
\* assembler returns a PostingError with the id of the page and does not
\* throw.
C16_MissingTableIsError ==
  \A c \in 1..Len(calls) :
    (calls[c].fn = "extractPostingDetails" /\ MissingTable(calls[c].arg))
      => /\ calls[c].ret.t = "returned"
         /\ calls[c].ret.v.error.t = "string"
         /\ calls[c].ret.v.id = calls[c].arg.id

\* ----------------------------------------------------------------- C17
SomeIncludes(strings, needle) ==
  \E k \in 1..Len(strings) : includes(toLowerCase(strings[k].v), needle)

\* the rules in the order of the claim, as <<condition, status>>
StatusRules(tags, posting, buttons) ==
  << << SomeIncludes(tags, <<"application", " ", "submitted">>), "APPLIED" >>,
     << posting = "EXPIRED", "EXPIRED" >>,
     << SomeIncludes(tags, <<"shortlisted">>), "SHORTLISTED" >>,
     << SomeIncludes(buttons, <<"include">>), "NOT-INTERESTED" >>,
     << SomeIncludes(buttons, <<"apply">>), "AVAILABLE" >>,
     << TRUE, "UNKNOWN" >> >>

FirstMatchingRule(rules) ==
  rules[CHOOSE k \in 1..Len(rules) :
          rules[k][1] /\ \A j \in 1..(k - 1) : ~rules[j][1]][2]

\* an assembled Posting: the page it was read from and the result
IsAssembly(c) ==
  /\ calls[c].fn = "extractPostingDetails"
  /\ calls[c].ret.t = "returned"
  /\ calls[c].ret.v.error.t /= "string"

\* C17: application.status is the result of the first matching rule, in
\* the order APPLIED (tag 'application submitted'), EXPIRED (posting
\* status), SHORTLISTED (tag), NOT-INTERESTED (button 'include'), AVAILABLE
\* (button 'apply'), UNKNOWN.
C17_StatusPrecedence ==
  \A c \in 1..Len(calls) :
    IsAssembly(c) =>
      calls[c].ret.v.application.parsed.status =
        FirstMatchingRule(StatusRules(calls[c].arg.tags.v,
                                      calls[c].ret.v.status.parsed.posting,
                                      calls[c].arg.interactions))

\* tags ["Shortlisted"] on an expired posting give EXPIRED
C17_Witness ==
  \E c \in 1..Len(calls) :
    /\ IsAssembly(c)
    /\ calls[c].arg.tags = Arr(<< Str(<<"Shortlisted">>) >>)
    /\ calls[c].ret.v.status.parsed.posting = "EXPIRED"
    /\ calls[c].ret.v.application.parsed.status = "EXPIRED"

\* ----------------------------------------------------------------- C18
\* C18: priorityMatch returns the value of the first key, in table order,
\* that contains the first candidate, in candidate order, that some key
\* contains; undefined when no candidate is contained in any key.
C18_FirstCandidateFirstKey ==
  \A c \in 1..Len(calls) :
    calls[c].fn = "priorityMatch" =>
      LET entries == calls[c].arg.map.v
          options == calls[c].arg.options
          keysOf(n) == { k \in 1..Len(entries) :
                           Matches(entries[k][1].v, options[n]) }
          found == { n \in 1..Len(options) : keysOf(n) /= {} }
      IN IF found = {} THEN calls[c].ret = Returned(Undefined)
         ELSE LET n == CHOOSE n \in found : \A m \in found : n <= m
                  k == CHOOSE k \in keysOf(n) : \A j \in keysOf(n) : k <= j
              IN calls[c].ret = Returned(entries[k][2])

\* a later key is returned because an earlier candidate matches only it
C18_Witness ==
  \E c \in 1..Len(calls) :
    /\ calls[c].fn = "priorityMatch"
    /\ Len(calls[c].arg.options) = 2
    /\ Len(calls[c].arg.map.v) >= 2
    /\ ~Matches(calls[c].arg.map.v[1][1].v, calls[c].arg.options[1])
    /\ Matches(calls[c].arg.map.v[1][1].v, calls[c].arg.options[2])
    /\ Matches(calls[c].arg.map.v[2][1].v, calls[c].arg.options[1])
    /\ calls[c].ret = Returned(calls[c].arg.map.v[2][2])

\* ----------------------------------------------------------------- C19
\* C19: reordering the table entries whose keys no candidate matches does
\* not change the result of priorityMatch.
C19_OrderStable ==
  \A c \in 1..Len(calls) :
    (c >= 2 /\ calls[c].fn = "priorityMatch")
      => calls[c].ret = calls[1].ret

\* an unmatched entry moved from behind the matching entry to the front
C19_Witness ==
  /\ Len(calls) = 2
  /\ calls[2].fn = "priorityMatch"
  /\ calls[2].arg.map /= calls[1].arg.map
  /\ calls[1].ret.v.t = "string"
  /\ calls[2].arg.map.v[1] /= calls[1].arg.map.v[1]

\* ----------------------------------------------------------------- C20
\* the vocabulary of each normalizer
Members(fn) ==
  CASE fn = "parseJobPostingStatus" -> {"APPROVED", "EXPIRED", "UNKNOWN"}
    [] fn = "parseInternalStatus" ->
         { "FILLED", "PARTIALLY-FILLED", "EMP-RANKINGS-FINALIZED",
           "INTERVIEW-COMPLETE", "INTERVIEW-SELECTIONS-COMPLETE",
           "EXPIRED-APPLICATIONS-AVAILABLE", "OPEN-FOR-APPLICATIONS",
           "CANCEL", "UNKNOWN" }
    [] fn = "parseApplicationStatus" ->
         { "APPLIED", "SHORTLISTED", "NOT-INTERESTED", "EXPIRED",
           "AVAILABLE", "UNKNOWN" }
    [] fn = "parseInterviewStatus" ->
         { "APPLIED", "NOT-SELECTED", "SELECTED-FOR-INTERVIEW", "EMPLOYED",
           "NONE", "UNKNOWN" }
    [] fn = "parseJobDuration" ->
         { "4 month", "4 or 8 month", "8 month preferred",
           "8 month required", "8 or 12 month", "12 month",
           "2 work term commitment preferred",
           "2 work term commitment required", "UNKNOWN" }
    [] fn = "parseJobLevels" -> {"JUNIOR", "INTERMEDIATE", "SENIOR"}
    [] fn = "parseApplicationDocument" ->
         { "Cover letter", "Grade report", "Resume",
           "Student Information Summary (SIS)", "Transcript", "Work history",
           "Other", "UNKNOWN" }
    [] fn = "parseWorkTermTerm" -> {"FALL", "WINTER", "SPRING", "UNKNOWN"}

\* the rules of each normalizer: a rule is a set of clauses that must all
\* hold, a clause a set of needles of which the text holds one
Rules(fn) ==
  CASE fn = "parseJobPostingStatus" ->
         { {{<<"approved">>}}, {{<<"expired">>}} }
    [] fn = "parseInternalStatus" ->
         { {{<<"filled">>}}, {{<<"partially", " ", "filled">>}},
           {{<<"rankings", " ", "finalized">>}},
           {{<<"interview", " ", "complete">>}},
           {{<<"interview", " ", "selections", " ", "complete">>}},
           {{<<"expired">>}, {<<"available">>}},
           {{<<"open">>}, {<<"applications">>}}, {{<<"cancel">>}} }
    [] fn = "parseApplicationStatus" ->
         { {{<<"applied">>}}, {{<<"shortlisted">>}},
           {{<<"not", " ", "interested">>}}, {{<<"expired">>}},
           {{<<"available">>}} }
    [] fn = "parseInterviewStatus" ->
         { {{<<"applied">>}}, {{<<"not", " ", "selected">>}},
           {{<<"selected">>}, {<<"interview">>}}, {{<<"employed">>}},
           {{<<"none">>}} }
    [] fn = "parseJobDuration" ->
         { {{<<"4">>, <<"four">>}}, {{<<"1", "2">>, <<"twelve">>}},
           {{<<"8">>, <<"eight">>}},
           {{<<"2", " ", "work">>}, {<<"prefer", "red">>}},
           {{<<"2", " ", "work">>}, {<<"required">>}} }
    [] fn = "parseJobLevels" ->
         { {{<<"junior">>}}, {{<<"intermediate">>}}, {{<<"senior">>}} }
    [] fn = "parseApplicationDocument" ->
         { {{<<"cover">>}, {<<"letter">>}}, {{<<"grade">>}, {<<"report">>}},
           {{<<"work">>}, {<<"history">>}}, {{<<"SIS">>}},
           {{<<"Transcript">>}}, {{<<"resume">>}}, {{<<"other">>}} }
    [] fn = "parseWorkTermTerm" ->
         { {{<<"fall">>}}, {{<<"winter">>}}, {{<<"spring">>}} }

\* the text as the rules see it
Seen(fn, text) ==
  IF fn = "parseApplicationDocument"
    THEN StripMarks(trim(toLowerCase(text)))
  ELSE IF fn = "parseJobLevels" THEN toLowerCase(text)
  ELSE trim(toLowerCase(text))

SomeRuleMatches(fn, text) ==
  \E rule \in Rules(fn) :
    \A clause \in rule : \E needle \in clause :
      includes(Seen(fn, text), needle)

Unknown == Str(<<"UNKNOWN">>)

SingleValued == Normalizers \ {"parseJobLevels"}

DurationNormalizers ==
  { "parseJobDuration", "waterlooworks/parseJobDuration",
    "sfu-myexperience/parseJobDuration", "pdportal/parseJobDuration",
    "other/parseJobDuration" }

HasFour(text) ==
  \/ includes(trim(toLowerCase(text)), <<"4">>)
  \/ includes(trim(toLowerCase(text)), <<"four">>)

HasEight(text) ==
  \/ includes(trim(toLowerCase(text)), <<"8">>)
  \/ includes(trim(toLowerCase(text)), <<"eight">>)

HasTwelve(text) ==
  \/ includes(trim(toLowerCase(text)), <<"1", "2">>)
  \/ includes(trim(toLowerCase(text)), <<"twelve">>)

\* C21: in the duration normalizer of every source a text holding a four
\* token ("4" or "four") and an eight token ("8" or "eight") gives
\* "4 or 8 month", whatever else the text holds.
C21_FourAndEightCombine ==
  \A c \in 1..Len(calls) :
    /\ calls[c].fn \in DurationNormalizers
    /\ HasFour(calls[c].arg)
    /\ HasEight(calls[c].arg)
    => calls[c].ret = Returned(Str(<<"4 or 8 month">>))

\* "4 or 8 month co-op" was normalized by the sfu-myexperience source,
\* whose rules are nested
C21_Witness ==
  \E c \in 1..Len(calls) :
    /\ calls[c].fn = "sfu-myexperience/parseJobDuration"
    /\ calls[c].arg = <<"4", " ", "or", " ", "8", " ", "month", " ", "co-op">>
    /\ calls[c].ret = Returned(Str(<<"4 or 8 month">>))

\* ----------------------------------------------------------------- C22
\* the duration normalizers with a "preferred" and a "required" variant
QualifiedDurations == {"parseJobDuration", "waterlooworks/parseJobDuration"}

EightMonthRequired == <<"8", " ", "Month", " ", "Required">>

EightMonthPreferred == <<"8", " ", "month", " ", "prefer", "red">>

\* C22: the duration normalizers of myexperience and waterlooworks map
\* "8 month required" to the variant "8 month required" and
\* "8 month preferred" to the variant "8 month preferred"; more generally
\* a text with an eight token, no four and no twelve token and exactly one
\* of the two qualifier words gives the variant of that word.
C22_QualifiersDistinct ==
  /\ \A fn \in QualifiedDurations :
       Normalize(fn, EightMonthRequired) /= Normalize(fn, EightMonthPreferred)
  /\ \A c \in 1..Len(calls) :
       LET s == trim(toLowerCase(calls[c].arg)) IN
         /\ calls[c].fn \in QualifiedDurations
         /\ HasEight(calls[c].arg)
         /\ ~HasFour(calls[c].arg)
         /\ ~HasTwelve(calls[c].arg)
         => /\ includes(s, <<"required">>) /\ ~includes(s, <<"prefer">>)
               => calls[c].ret = Returned(Str(<<"8 month required">>))
            /\ includes(s, <<"prefer", "red">>) /\ ~includes(s, <<"required">>)
               => calls[c].ret = Returned(Str(<<"8 month preferred">>))

\* waterlooworks normalized "8 month preferred"
C22_Witness ==
  \E c \in 1..Len(calls) :
    /\ calls[c].fn = "waterlooworks/parseJobDuration"
    /\ calls[c].arg = EightMonthPreferred
    /\ calls[c].ret = Returned(Str(<<"8 month preferred">>))
    /\ Normalize(calls[c].fn, EightMonthRequired)
         = Str(<<"8 month required">>)

\* ----------------------------------------------------------------- C23
TwoWorkVariants ==
  { Str(<<"2 work term commitment preferred">>),
    Str(<<"2 work term commitment required">>) }

\* C23: the myexperience duration normalizer looks for "2 work" before
\* the month tokens: a text with "2 work", a qualifier word and a month
\* token (4/four, 8/eight, 12/twelve) gives a 2-work-term-commitment
\* variant, not a month variant.
C23_TwoWorkBeforeMonths ==
  \A c \in 1..Len(calls) :
    LET s == trim(toLowerCase(calls[c].arg)) IN
      /\ calls[c].fn = "parseJobDuration"
      /\ includes(s, <<"2", " ", "work">>)
      /\ includes(s, <<"required">>) \/ includes(s, <<"prefer", "red">>)
      /\ HasFour(calls[c].arg) \/ HasEight(calls[c].arg)
           \/ HasTwelve(calls[c].arg)
      => calls[c].ret.v \in TwoWorkVariants

\* what the code does: a 2-work-term-commitment variant is returned only
\* for a text without any month token
C23_TwoWorkAfterMonths ==
  \A c \in 1..Len(calls) :
    /\ calls[c].fn = "parseJobDuration"
    /\ calls[c].ret.v \in TwoWorkVariants
    => /\ ~HasFour(calls[c].arg)
       /\ ~HasEight(calls[c].arg)
       /\ ~HasTwelve(calls[c].arg)

\* ----------------------------------------------------------------- C30
\* the normalizers of internal status, document type and duration
VocabularyNormalizers ==
  DurationNormalizers \cup
  { "parseInternalStatus", "sfu-myexperience/parseInternalStatus",
    "parseApplicationDocument", "other/parseApplicationDocument" }

\* the declared vocabulary (the union type) of each of them
Vocabulary(fn) ==
  CASE fn \in Normalizers -> Members(fn)
    [] fn = "waterlooworks/parseJobDuration" ->
         { "4 month", "4 or 8 month", "8 month preferred",
           "8 month required", "UNKNOWN" }
    [] fn \in {"sfu-myexperience/parseJobDuration", "other/parseJobDuration"}
         -> { "4 month", "4 or 8 month", "8 month", "8 or 12 month",
              "12 month", "UNKNOWN" }
    [] fn = "pdportal/parseJobDuration" ->
         { "4 month", "4 or 8 month", "8 month", "8 or 12 month", "12 month",
           "16 month", "UNKNOWN" }
    [] fn = "sfu-myexperience/parseInternalStatus" ->
         { "FILLED", "PARTIALLY-FILLED", "FILLED-EXTERNALLY", "UNFILLED",
           "EMP-RANKINGS-FINALIZED", "INTERVIEW-COMPLETE",
           "INTERVIEWING-PHASE", "INTERVIEW-SELECTIONS-COMPLETE",
           "EXPIRED-APPLICATIONS-AVAILABLE", "OFFER-PHASE",
           "OPEN-FOR-APPLICATIONS", "CANCEL", "NOT-SET", "UNKNOWN" }
    [] fn = "other/parseApplicationDocument" ->
         { "Cover letter", "Transcript", "Resume", "Student Summary Sheet",
           "Work history", "Other", "UNKNOWN" }

\* some text of the model is mapped to the member
Reached(fn, member) ==
  \E i \in NormalizerInputs :
    i.fn = fn /\ Normalize(fn, i.text) = Str(<<member>>)

\* the members that no rule of the code can return
Shadowed ==
  { <<"parseInternalStatus", "PARTIALLY-FILLED">>,
    <<"parseApplicationDocument", "Student Information Summary (SIS)">>,
    <<"parseApplicationDocument", "Transcript">>,
    <<"pdportal/parseJobDuration", "16 month">> }

\* C30: every member of the vocabulary of every internal-status,
\* document-type and duration normalizer is the result of some text; a
\* text with "partially filled" gives PARTIALLY-FILLED and a text with
\* "transcript" gives Transcript.
C30_EveryMemberReachable ==
  /\ \A fn \in VocabularyNormalizers :
       \A member \in Vocabulary(fn) : Reached(fn, member)
  /\ \A c \in 1..Len(calls) :
       LET s == trim(toLowerCase(calls[c].arg)) IN
         /\ calls[c].fn = "parseInternalStatus"
              /\ includes(s, <<"partially", " ", "filled">>)
              => calls[c].ret.v = Str(<<"PARTIALLY-FILLED">>)
         /\ calls[c].fn = "parseApplicationDocument"
              /\ s = <<"transcript">>
              => calls[c].ret.v = Str(<<"Transcript">>)

\* what the code does: the shadowed members are never returned, whatever
\* the text, and every other member is the result of some text
C30_ShadowedNeverReturned ==
  /\ \A c \in 1..Len(calls) :
       \A sh \in Shadowed :
         calls[c].fn = sh[1] => calls[c].ret.v /= Str(<<sh[2]>>)
  /\ \A c \in 1..Len(calls) :
       calls[c].fn \in VocabularyNormalizers =>
         \A member \in Vocabulary(calls[c].fn) :
           <<calls[c].fn, member>> \notin Shadowed
             => Reached(calls[c].fn, member)

\* ----------------------------------------------------------------- C24
\* C24: every extraction runs on the popup page that the click of its own
\* row opened: the popup claimed for a click is the popup of that click,
\* so a popup that arrives after its record was reported as timed out is
\* never claimed by a later record.
C24_OwnPopupOnly ==
  \A c \in 1..Len(resolved) : resolved[c] \in {Awaiting, TimedOut, c}

\* ----------------------------------------------------------------- C25
NoTaskInFlight ==
  /\ nPages = 0
  /\ \A k \in 1..Len(jobs) : jobs[k].st /= "running" /\ jobs[k].closed

\* the controller clicks next, returns or throws
ExitStep ==
  \/ nextClicks' /= nextClicks
  \/ (pc' /= pc /\ pc' \in {"returned", "thrown"})

\* C25: when the controller clicks next, returns or throws, no extraction
\* task is in flight: every page claimed on the current listing page has
\* finished its extraction and had close() called, and nPages is 0.
C25_QuiescentAtExits ==
  [][ExitStep => NoTaskInFlight /\ NoTaskInFlight']_vars

\* the controller clicked next after a page on which a popup was claimed
\* and its extraction ended with an error
C25_Witness ==
  /\ pc = "navWait"
  /\ \E k \in 1..Len(jobs) : jobs[k].closed /\ jobs[k].how = "incomplete"
  /\ NoTaskInFlight

\* ----------------------------------------------------------------- C26
\* the mailbox held a popup and holds it no longer
MailboxEmptied == openedPage /= NoPage /\ openedPage' /= openedPage

\* the controller took the popup out of the mailbox for the current click
ClaimedByController ==
  /\ pc = "claim"
  /\ openedPage' = NoPage
  /\ resolved'[Len(clicks)] = openedPage

\* C26: a popup in the mailbox is never replaced by another popup: the
\* mailbox changes from a popup only by the controller claiming it, and
\* no popup is claimed for two clicks.
C26_MailboxNeverOverwritten ==
  /\ [][MailboxEmptied => ClaimedByController]_vars
  /\ [](\A a, b \in 1..Len(resolved) :
          resolved[a] = resolved[b] /\ resolved[a] > 0 => a = b)

\* a second popup was announced while the mailbox held one, and waits
C26_Witness == openedPage /= NoPage /\ waiting /= {}

\* ----------------------------------------------------------------- C27
\* C27: the popup listener registered at the start of the call is removed
\* when the call ends, by a return, by the throw for a missing table or
\* for too many repeated rows, and by the pagination timeout; it is
\* removed at no other moment.
C27_ListenerRemovedAtExit ==
  /\ [](Terminated => ~listener)
  /\ [][listener /\ ~listener' => ~Terminated /\ Terminated']_vars

\* the call registered the listener and ended by the throw of the
\* repeat threshold
C27_Witness ==
  /\ pc = "thrown"
  /\ failure = FailTooMany
  /\ pageNo > 0
  /\ ~listener

\* ----------------------------------------------------------------- C28
\* the controller is reading or working on the rows of a listing page
InPage ==
  pc \in { "rowHead", "slotCheck", "slotWait", "pollCheck", "pollWait",
           "claim", "delayWait", "join", "readPag" }

\* C28: with maxPages = N > 0 the rows of at most N listing pages are
\* extracted and next is clicked at most N - 1 times: after the N-th page
\* the call returns without a further click on next and without waiting
\* for a further page change.
C28_NoAdvanceAfterLastPage ==
  opts.maxPages > 0 =>
    /\ InPage => pageNo < opts.maxPages
    /\ nextClicks <= opts.maxPages - 1
    /\ pc = "navWait" => pageNo + 1 < opts.maxPages

\* what the code does: at most N pages are extracted, and next is clicked
\* once after each of them, the N-th included
C28_AtMostNPagesNClicks ==
  opts.maxPages > 0 =>
    /\ InPage => pageNo < opts.maxPages
    /\ nextClicks <= opts.maxPages

\* ----------------------------------------------------------------- C29
\* the row loop is at a row
AtRow == pc = "rowHead" /\ ri <= Len(plist)

\* C29: a row without an id is never skipped by the dedup check: it is
\* clicked every time the row loop reaches it, also when an id-less row
\* was processed before, and every click has its entry in the returned
\* result list; only a row with a non-empty id that was seen is skipped.
C29_IdlessRowsNeverSkipped ==
  /\ [][AtRow =>
          IF plist[ri] /= NoId /\ plist[ri] \in done
            THEN clicks' = clicks /\ ri' = ri + 1
            ELSE clicks' = Append(clicks, plist[ri])]_vars
  /\ [](pc = "returned" => Len(results) = Len(clicks))

\* two id-less rows were clicked and the call returned an entry for each
C29_Witness ==
  /\ pc = "returned"
  /\ NoId \in done
  /\ Cardinality({c \in 1..Len(clicks) : clicks[c] = NoId}) = 2
  /\ Len(results) = Len(clicks)

TypeOK ==
  /\ pc \in YieldPoints \cup {"pageHead", "rowHead", "slotCheck", "pollCheck",
                              "claim", "returned", "thrown"}
  /\ openedPage \in 0..Len(clicks)
  /\ nPages \in 0..Len(jobs)
  /\ input = NoInput
  /\ calls = << >>
====
